---- MODULE Spec2Model ----
(***************************************************************************)
(* A model of the WordleChampion solver: the feedback codec, the entropy   *)
(* engine, the comparators and views, the constraint tracker, the          *)
(* dictionary filter, the strategy engine (get_smart_hybrid_guess), the    *)
(* simulation harness (run_hybrid_strategy, one OpenMP thread per worker)  *)
(* and the interactive loop (run_interactive_mode).                        *)
(*                                                                         *)
(* Conventions.  A word is a 5-tuple of one-letter strings.  Arrays are    *)
(* sequences, so index i of the code is index i+1 here.  A pointer into a  *)
(* dictionary array is the (1-based) index of the entry; NULL is 0.        *)
(* A double holding an entropy or a score is a fixed-point integer in      *)
(* thousandths (of a bit); logarithms come from the tables Log2Milli and   *)
(* Log10Milli.                                                             *)
(***************************************************************************)
EXTENDS Integers, Sequences, FiniteSets, TLC

VARIABLES
    fb,                     \* harness of get_feedback_pattern
    fl,                     \* harness of filter_dictionary_by_constraints
    sel,                    \* harness of get_smart_hybrid_guess
    call,                   \* harness of the other functions: one call, its arguments and result
    g_isHardMode,           \* main.cpp: hard / normal mode
    g_isInteractivePlay,    \* main.cpp: interactive loop / simulation
    config,                 \* the HybridConfig handed to run_hybrid_strategy
    p_master_dictionary,    \* the loaded dictionary (read-only for the simulation)
    phase,                  \* position of the main thread
    p_opener_data,          \* what the malloc of the opener copy returned
    opening_word,           \* the opener determined in phase 1
    stats,                  \* the shared SimStats
    next_t,                 \* next iteration the dynamic schedule hands out
    thr,                    \* per-thread private state of the parallel region
    games,                  \* per target: how often it was counted, and the outcome
    ia                      \* state of run_interactive_mode

vars == <<fb, fl, sel, call, g_isHardMode, g_isInteractivePlay, config, p_master_dictionary,
          phase, p_opener_data, opening_word, stats, next_t, thr, games, ia>>

mainVars == <<g_isHardMode, g_isInteractivePlay, config, p_master_dictionary,
              phase, p_opener_data, opening_word, stats, next_t, thr, games, ia>>

----------------------------------------------------------------------------
(* Letters and words *)

WORDLE_WORD_LENGTH == 5
MAX_GUESSES == 6
PRUNE_COUNT == 60

Alphabet == <<"A","B","C","D","E","F","G","H","I","J","K","L","M",
              "N","O","P","Q","R","S","T","U","V","W","X","Y","Z">>

Letters == {Alphabet[i] : i \in 1..26}

\* c - 'A'
CharIdx == [c \in Letters |-> CHOOSE i \in 0..25 : Alphabet[i + 1] = c]

Positions == 1..WORDLE_WORD_LENGTH

Min(a, b) == IF a < b THEN a ELSE b
Max(a, b) == IF a > b THEN a ELSE b

RECURSIVE SumSeq(_)
SumSeq(s) == IF s = <<>> THEN 0 ELSE Head(s) + SumSeq(Tail(s))

\* a C array held as an explicit sequence of its elements
Array(f) == SubSeq(f, 1, Len(f))

\* number of positions of word w holding letter c
Occurrences(w, c) == Cardinality({i \in Positions : w[i] = c})

----------------------------------------------------------------------------
(* FeedbackCodec: entropy_calculator.cpp *)

\* memset to 'B', then the first pass: 'G' where guess[i] == answer[i]
GreenPass(guess, answer) ==
    [i \in Positions |-> IF guess[i] = answer[i] THEN "G" ELSE "B"]

\* answer_char_counts after the first pass: the answer's letters at non-green positions
UnmatchedAnswerCounts(guess, answer) ==
    [c \in Letters |->
        Cardinality({i \in Positions : guess[i] # answer[i] /\ answer[i] = c})]

\* a second pass that forgets to consume the letter it marks yellow
YellowPassNoConsume(guess, pattern, counts, i) ==
    [j \in Positions |->
        IF j >= i /\ pattern[j] # "G" /\ counts[guess[j]] > 0 THEN "Y" ELSE pattern[j]]

\* the second pass, position i onwards: a non-green position turns 'Y' while the
\* answer still has that letter available, and consumes it
RECURSIVE YellowPass(_, _, _, _)
YellowPass(guess, pattern, counts, i) ==
    IF i > WORDLE_WORD_LENGTH THEN pattern
    ELSE IF pattern[i] # "G" /\ counts[guess[i]] > 0
         THEN YellowPass(guess, [pattern EXCEPT ![i] = "Y"],
                         [counts EXCEPT ![guess[i]] = @ - 1], i + 1)
         ELSE YellowPass(guess, pattern, counts, i + 1)

get_feedback_pattern(guess, answer) ==
    YellowPass(guess, GreenPass(guess, answer), UnmatchedAnswerCounts(guess, answer), 1)

\* states[] of compute_feedback_index: 0 = B, 1 = Y, 2 = G
RECURSIVE IndexYellowPass(_, _, _, _)
IndexYellowPass(guess, states, counts, i) ==
    IF i > 5 THEN states
    ELSE IF states[i] # 2 /\ counts[guess[i]] > 0
         THEN IndexYellowPass(guess, [states EXCEPT ![i] = 1],
                              [counts EXCEPT ![guess[i]] = @ - 1], i + 1)
         ELSE IndexYellowPass(guess, states, counts, i + 1)

\* an encoder that takes position 0 as the most significant digit
EncodeBase3MostSignificantFirst(states, i, multiplier) ==
    states[1] * 81 + states[2] * 27 + states[3] * 9 + states[4] * 3 + states[5]

\* index += states[i] * multiplier; multiplier *= 3  (position 0 least significant)
RECURSIVE EncodeBase3(_, _, _)
EncodeBase3(states, i, multiplier) ==
    IF i > 5 THEN 0
    ELSE states[i] * multiplier + EncodeBase3(states, i + 1, multiplier * 3)

compute_feedback_index(guess, answer) ==
    LET greens == [i \in 1..5 |-> IF guess[i] = answer[i] THEN 2 ELSE 0]
        counts == [c \in Letters |->
                     Cardinality({i \in 1..5 : guess[i] # answer[i] /\ answer[i] = c})]
    IN  EncodeBase3(IndexYellowPass(guess, greens, counts, 1), 1, 1)

\* solver_logic.cpp's own copy of the same encoder
lookahead_feedback_index(guess, answer) ==
    LET greens == [i \in 1..5 |-> IF guess[i] = answer[i] THEN 2 ELSE 0]
        counts == [c \in Letters |->
                     Cardinality({i \in 1..5 : guess[i] # answer[i] /\ answer[i] = c})]
    IN  EncodeBase3(IndexYellowPass(guess, greens, counts, 1), 1, 1)

----------------------------------------------------------------------------
(* Logarithm tables: round(1000 * log(k)) for k = 1 .. Len(table) *)

Log2Milli == <<
    0, 1000, 1585, 2000, 2322, 2585, 2807, 3000, 3170, 3322, 3459, 3585, 3700, 3807, 3907, 4000,
    4087, 4170, 4248, 4322, 4392, 4459, 4524, 4585, 4644, 4700, 4755, 4807, 4858, 4907, 4954, 5000 >>

Log10Milli == <<
    0, 301, 477, 602, 699, 778, 845, 903, 954, 1000, 1041, 1079, 1114, 1146, 1176, 1204,
    1230, 1255, 1279, 1301, 1322, 1342, 1362, 1380, 1398, 1415, 1431, 1447, 1462, 1477, 1491, 1505,
    1519, 1531, 1544, 1556, 1568, 1580, 1591, 1602, 1613, 1623, 1633, 1643, 1653, 1663, 1672, 1681,
    1690, 1699, 1708, 1716, 1724, 1732, 1740, 1748, 1756, 1763, 1771, 1778, 1785, 1792, 1799, 1806,
    1813, 1820, 1826, 1833, 1839, 1845, 1851, 1857, 1863, 1869, 1875, 1881, 1886, 1892, 1898, 1903,
    1908, 1914, 1919, 1924, 1929, 1934, 1940, 1944, 1949, 1954, 1959, 1964, 1968, 1973, 1978, 1982,
    1987, 1991, 1996, 2000, 2004, 2009, 2013, 2017, 2021, 2025, 2029, 2033, 2037, 2041, 2045, 2049,
    2053, 2057, 2061, 2064, 2068, 2072, 2076, 2079, 2083, 2086, 2090, 2093, 2097, 2100, 2104, 2107,
    2111, 2114, 2117, 2121, 2124, 2127, 2130, 2134, 2137, 2140, 2143, 2146, 2149, 2152, 2155, 2158,
    2161, 2164, 2167, 2170, 2173, 2176, 2179, 2182, 2185, 2188, 2190, 2193, 2196, 2199, 2201, 2204,
    2207, 2210, 2212, 2215, 2217, 2220, 2223, 2225, 2228, 2230, 2233, 2236, 2238, 2241, 2243, 2246,
    2248, 2250, 2253, 2255, 2258, 2260, 2262, 2265, 2267, 2270, 2272, 2274, 2276, 2279, 2281, 2283,
    2286, 2288, 2290, 2292, 2294, 2297, 2299, 2301, 2303, 2305, 2307, 2310, 2312, 2314, 2316, 2318,
    2320, 2322, 2324, 2326, 2328, 2330, 2332, 2334, 2336, 2338, 2340, 2342, 2344, 2346, 2348, 2350,
    2352, 2354, 2356, 2358, 2360, 2362, 2364, 2365, 2367, 2369, 2371, 2373, 2375, 2377, 2378, 2380,
    2382, 2384, 2386, 2387, 2389, 2391, 2393, 2394, 2396, 2398, 2400, 2401, 2403, 2405, 2407, 2408,
    2410, 2412, 2413, 2415, 2417, 2418, 2420, 2422, 2423, 2425, 2427, 2428, 2430, 2431, 2433, 2435,
    2436, 2438, 2439, 2441, 2442, 2444, 2446, 2447, 2449, 2450, 2452, 2453, 2455, 2456, 2458, 2459,
    2461, 2462, 2464, 2465, 2467, 2468, 2470, 2471, 2473, 2474, 2476, 2477, 2479, 2480, 2481, 2483,
    2484, 2486, 2487, 2489, 2490, 2491, 2493, 2494, 2496, 2497, 2498, 2500, 2501, 2502, 2504, 2505,
    2507, 2508, 2509, 2511, 2512, 2513, 2515, 2516, 2517, 2519, 2520, 2521, 2522, 2524, 2525, 2526,
    2528, 2529, 2530, 2531, 2533, 2534, 2535, 2537, 2538, 2539, 2540, 2542, 2543, 2544, 2545, 2547,
    2548, 2549, 2550, 2551, 2553, 2554, 2555, 2556, 2558, 2559, 2560, 2561, 2562, 2563, 2565, 2566,
    2567, 2568, 2569, 2571, 2572, 2573, 2574, 2575, 2576, 2577, 2579, 2580, 2581, 2582, 2583, 2584,
    2585, 2587, 2588, 2589, 2590, 2591, 2592, 2593, 2594, 2595, 2597, 2598, 2599, 2600, 2601, 2602,
    2603, 2604, 2605, 2606, 2607, 2609, 2610, 2611, 2612, 2613, 2614, 2615, 2616, 2617, 2618, 2619,
    2620, 2621, 2622, 2623, 2624, 2625, 2626, 2627, 2628, 2629, 2630, 2631, 2632, 2633, 2634, 2635,
    2636, 2637, 2638, 2639, 2640, 2641, 2642, 2643, 2644, 2645, 2646, 2647, 2648, 2649, 2650, 2651,
    2652, 2653, 2654, 2655, 2656, 2657, 2658, 2659, 2660, 2661, 2662, 2663, 2664, 2665, 2666, 2667,
    2667, 2668, 2669, 2670, 2671, 2672, 2673, 2674, 2675, 2676, 2677, 2678, 2679, 2679, 2680, 2681,
    2682, 2683, 2684, 2685, 2686, 2687, 2688, 2688, 2689, 2690, 2691, 2692, 2693, 2694, 2695, 2695,
    2696, 2697, 2698, 2699, 2700, 2701, 2702, 2702, 2703, 2704, 2705, 2706, 2707, 2708, 2708, 2709,
    2710, 2711, 2712, 2713, 2713, 2714, 2715, 2716, 2717, 2718, 2719, 2719, 2720, 2721, 2722, 2723,
    2723, 2724, 2725, 2726, 2727, 2728, 2728, 2729, 2730, 2731, 2732, 2732, 2733, 2734, 2735, 2736,
    2736, 2737, 2738, 2739, 2740, 2740, 2741, 2742, 2743, 2744, 2744, 2745, 2746, 2747, 2747, 2748,
    2749, 2750, 2751, 2751, 2752, 2753, 2754, 2754, 2755, 2756, 2757, 2757, 2758, 2759, 2760, 2760,
    2761, 2762, 2763, 2763, 2764, 2765, 2766, 2766, 2767, 2768, 2769, 2769, 2770, 2771, 2772, 2772,
    2773, 2774, 2775, 2775, 2776, 2777, 2777, 2778, 2779, 2780, 2780, 2781, 2782, 2782, 2783, 2784,
    2785, 2785, 2786, 2787, 2787, 2788, 2789, 2790, 2790, 2791, 2792, 2792, 2793, 2794, 2794, 2795,
    2796, 2797, 2797, 2798, 2799, 2799, 2800, 2801, 2801, 2802, 2803, 2803, 2804, 2805, 2806, 2806,
    2807, 2808, 2808, 2809, 2810, 2810, 2811, 2812, 2812, 2813, 2814, 2814, 2815, 2816, 2816, 2817,
    2818, 2818, 2819, 2820, 2820, 2821, 2822, 2822, 2823, 2823, 2824, 2825, 2825, 2826, 2827, 2827,
    2828, 2829, 2829, 2830, 2831, 2831, 2832, 2833, 2833, 2834, 2834, 2835, 2836, 2836, 2837, 2838,
    2838, 2839, 2839, 2840, 2841, 2841, 2842, 2843, 2843, 2844, 2844, 2845, 2846, 2846, 2847, 2848,
    2848, 2849, 2849, 2850, 2851, 2851, 2852, 2852, 2853, 2854, 2854, 2855, 2856, 2856, 2857, 2857,
    2858, 2859, 2859, 2860, 2860, 2861, 2862, 2862, 2863, 2863, 2864, 2865, 2865, 2866, 2866, 2867,
    2867, 2868, 2869, 2869, 2870, 2870, 2871, 2872, 2872, 2873, 2873, 2874, 2874, 2875, 2876, 2876,
    2877, 2877, 2878, 2879, 2879, 2880, 2880, 2881, 2881, 2882, 2883, 2883, 2884, 2884, 2885, 2885,
    2886, 2886, 2887, 2888, 2888, 2889, 2889, 2890, 2890, 2891, 2892, 2892, 2893, 2893, 2894, 2894,
    2895, 2895, 2896, 2897, 2897, 2898, 2898, 2899, 2899, 2900, 2900, 2901, 2901, 2902, 2903, 2903,
    2904, 2904, 2905, 2905, 2906, 2906, 2907, 2907, 2908, 2908, 2909, 2910, 2910, 2911, 2911, 2912,
    2912, 2913, 2913, 2914, 2914, 2915, 2915, 2916, 2916, 2917, 2918, 2918, 2919, 2919, 2920, 2920,
    2921, 2921, 2922, 2922, 2923, 2923, 2924, 2924, 2925, 2925, 2926, 2926, 2927, 2927, 2928, 2928,
    2929, 2929, 2930, 2930, 2931, 2931, 2932, 2932, 2933, 2933, 2934, 2934, 2935, 2936, 2936, 2937,
    2937, 2938, 2938, 2939, 2939, 2940, 2940, 2941, 2941, 2942, 2942, 2943, 2943, 2943, 2944, 2944,
    2945, 2945, 2946, 2946, 2947, 2947, 2948, 2948, 2949, 2949, 2950, 2950, 2951, 2951, 2952, 2952,
    2953, 2953, 2954, 2954, 2955, 2955, 2956, 2956, 2957, 2957, 2958, 2958, 2959, 2959, 2960, 2960,
    2960, 2961, 2961, 2962, 2962, 2963, 2963, 2964, 2964, 2965, 2965, 2966, 2966, 2967, 2967, 2968,
    2968, 2968, 2969, 2969, 2970, 2970, 2971, 2971, 2972, 2972, 2973, 2973, 2974, 2974, 2975, 2975,
    2975, 2976, 2976, 2977, 2977, 2978, 2978, 2979, 2979, 2980, 2980, 2980, 2981, 2981, 2982, 2982,
    2983, 2983, 2984, 2984, 2985, 2985, 2985, 2986, 2986, 2987, 2987, 2988, 2988, 2989, 2989, 2989,
    2990, 2990, 2991, 2991, 2992, 2992, 2993, 2993, 2993, 2994, 2994, 2995, 2995, 2996, 2996, 2997,
    2997, 2997, 2998, 2998, 2999, 2999, 3000, 3000, 3000, 3001, 3001, 3002, 3002, 3003, 3003, 3003,
    3004, 3004, 3005, 3005, 3006, 3006, 3006, 3007, 3007, 3008, 3008, 3009, 3009, 3009, 3010, 3010 >>

----------------------------------------------------------------------------
(* dictionary_entry_t (wordle_types.h) *)

Entry(w, rank, noun, verb) ==
    [word |-> w, entropy |-> 0, frequency_rank |-> rank, noun_type |-> noun,
     verb_type |-> verb,
     contains_duplicate_letters |-> \E i, j \in Positions : i < j /\ w[i] = w[j],
     is_eliminated |-> FALSE]

NULL == 0

\* the non-eliminated entries among the first count entries, in array order
\* (the loops that fill pp_thread_valid / ppValid / ppValidAnswers)
RECURSIVE ValidPointers(_, _)
ValidPointers(pool, count) ==
    IF count <= 0 THEN <<>>
    ELSE IF pool[count].is_eliminated THEN ValidPointers(pool, count - 1)
         ELSE Append(ValidPointers(pool, count - 1), count)

----------------------------------------------------------------------------
(* EntropyEngine: entropy_calculator.cpp *)

\* counts[pattern_idx] seen from each answer: the size of the bucket answer i falls in
BucketSizes(idx) ==
    Array([i \in DOMAIN idx |-> Cardinality({j \in DOMAIN idx : idx[j] = idx[i]})])

\* the tally of step 1, per answer
PatternCounts(guess, pool, ppValidAnswers, numValidAnswers) ==
    BucketSizes(Array([i \in 1..numValidAnswers |->
        compute_feedback_index(guess, pool[ppValidAnswers[i]].word)]))

\* sum over the answers of log2 of their bucket's size = sum over buckets of c*log2(c)
SumLog2(bucket) == SumSeq([i \in DOMAIN bucket |-> Log2Milli[bucket[i]]])

\* H = -sum p*log2(p) = log2(n) - (1/n) * sum c*log2(c), in thousandths of a bit;
\* ppValidAnswers is a sequence of pointers into pool
calculate_entropy_internal(guess, pool, ppValidAnswers, numValidAnswers) ==
    IF numValidAnswers <= 1 THEN 0
    ELSE (numValidAnswers * Log2Milli[numValidAnswers]
            - SumLog2(PatternCounts(guess, pool, ppValidAnswers, numValidAnswers)))
         \div numValidAnswers

\* hard-mode wrapper: eliminated entries get 0, the others their entropy over the
\* non-eliminated entries; nothing happens when none is valid
calculate_entropy_on_dictionary(pDictionary, dictionaryCount) ==
    LET ppValid == ValidPointers(pDictionary, dictionaryCount)
        validCount == Len(ppValid)
    IN  IF validCount = 0 THEN pDictionary
        ELSE Array([i \in 1..Len(pDictionary) |->
                IF i > dictionaryCount THEN pDictionary[i]
                ELSE IF pDictionary[i].is_eliminated
                     THEN [pDictionary[i] EXCEPT !.entropy = 0]
                     ELSE [pDictionary[i] EXCEPT !.entropy =
                             calculate_entropy_internal(pDictionary[i].word, pDictionary,
                                                        ppValid, validCount)]])

\* normal-mode wrapper: every candidate, eliminated or not, against the valid answers
calculate_entropy_for_candidates(pCandidates, candidateCount, ppValidAnswers, validAnswerCount) ==
    Array([i \in 1..Len(pCandidates) |->
        IF i > candidateCount THEN pCandidates[i]
        ELSE [pCandidates[i] EXCEPT !.entropy =
                calculate_entropy_internal(pCandidates[i].word, pCandidates,
                                           ppValidAnswers, validAnswerCount)]])

----------------------------------------------------------------------------
(* Ranking/Views: comparators.cpp, duplicate_dictionary.cpp *)

Sign(x) == IF x < 0 THEN -1 ELSE IF x > 0 THEN 1 ELSE 0

\* strncmp(w1, w2, 5), from position i on: the sign of the first difference
RECURSIVE strncmp(_, _, _)
strncmp(w1, w2, i) ==
    IF i > WORDLE_WORD_LENGTH THEN 0
    ELSE IF w1[i] # w2[i] THEN Sign(CharIdx[w1[i]] - CharIdx[w2[i]])
         ELSE strncmp(w1, w2, i + 1)

\* position of c in a 4-element preference order, 4 when absent
OrderPos(order, c) == IF \E i \in 1..4 : order[i] = c
                      THEN (CHOOSE i \in 1..4 : order[i] = c) - 1 ELSE 4

noun_type_diff(entry1, entry2) ==
    OrderPos(<<"R", "S", "N", "P">>, entry1.noun_type)
        - OrderPos(<<"R", "S", "N", "P">>, entry2.noun_type)

verb_type_diff(entry1, entry2) ==
    OrderPos(<<"N", "P", "S", "T">>, entry1.verb_type)
        - OrderPos(<<"N", "P", "S", "T">>, entry2.verb_type)

\* a variant that orders entropy low to high
EntropyDiffAscending(entry1, entry2) ==
    IF entry1.entropy > entry2.entropy THEN 1
    ELSE IF entry1.entropy < entry2.entropy THEN -1 ELSE 0

entropy_diff(entry1, entry2) ==
    IF entry1.entropy < entry2.entropy THEN 1
    ELSE IF entry1.entropy > entry2.entropy THEN -1 ELSE 0

dup_diff(entry1, entry2) ==
    IF ~entry1.contains_duplicate_letters /\ entry2.contains_duplicate_letters THEN -1
    ELSE IF ~entry2.contains_duplicate_letters /\ entry1.contains_duplicate_letters THEN 1
    ELSE 0

rank_diff(entry1, entry2) ==
    IF entry1.frequency_rank < entry2.frequency_rank THEN 1
    ELSE IF entry1.frequency_rank > entry2.frequency_rank THEN -1 ELSE 0

\* a variant that does not look at the flag
EliminatedDiffIgnored(entry1, entry2) == 0

eliminated_diff(entry1, entry2) ==
    IF entry1.is_eliminated /\ ~entry2.is_eliminated THEN 1
    ELSE IF ~entry1.is_eliminated /\ entry2.is_eliminated THEN -1 ELSE 0

\* the first non-zero result of a chain of comparisons
RECURSIVE FirstNonZero(_)
FirstNonZero(s) == IF s = <<>> THEN 0
                   ELSE IF Head(s) # 0 THEN Head(s) ELSE FirstNonZero(Tail(s))

compare_with_entropy_tie_breaker(entry1, entry2) ==
    FirstNonZero(<<dup_diff(entry1, entry2), noun_type_diff(entry1, entry2),
                   verb_type_diff(entry1, entry2), rank_diff(entry1, entry2),
                   strncmp(entry1.word, entry2.word, 1)>>)

compare_with_rank_tie_breaker(entry1, entry2) ==
    FirstNonZero(<<dup_diff(entry1, entry2), noun_type_diff(entry1, entry2),
                   verb_type_diff(entry1, entry2), entropy_diff(entry1, entry2),
                   strncmp(entry1.word, entry2.word, 1)>>)

compare_dictionary_entries_by_entropy_desc(entry1, entry2) ==
    FirstNonZero(<<eliminated_diff(entry1, entry2), entropy_diff(entry1, entry2),
                   compare_with_entropy_tie_breaker(entry1, entry2)>>)

compare_dictionary_entries_by_rank_desc(entry1, entry2) ==
    FirstNonZero(<<eliminated_diff(entry1, entry2), rank_diff(entry1, entry2),
                   compare_with_rank_tie_breaker(entry1, entry2)>>)

compare_master_entries_eliminated_then_alpha(entry1, entry2) ==
    FirstNonZero(<<eliminated_diff(entry1, entry2),
                   strncmp(entry1.word, entry2.word, 1)>>)

compare_dictionary_entries_by_entropy_no_filter_desc(entry1, entry2) ==
    FirstNonZero(<<entropy_diff(entry1, entry2), eliminated_diff(entry1, entry2),
                   compare_with_entropy_tie_breaker(entry1, entry2)>>)

\* the comparator a function pointer names
Compare(compare_func, entry1, entry2) ==
    CASE compare_func = "entropy_desc" ->
            compare_dictionary_entries_by_entropy_desc(entry1, entry2)
      [] compare_func = "rank_desc" ->
            compare_dictionary_entries_by_rank_desc(entry1, entry2)
      [] compare_func = "eliminated_then_alpha" ->
            compare_master_entries_eliminated_then_alpha(entry1, entry2)
      [] compare_func = "entropy_no_filter_desc" ->
            compare_dictionary_entries_by_entropy_no_filter_desc(entry1, entry2)

\* a view: pointers to the first count entries, qsort-ed by compare_func
\* (no view, <<>>, when the count is not positive)
duplicate_dictionary_pointers(p_source_dictionary, source_dictionary_count, compare_func) ==
    IF source_dictionary_count <= 0 THEN <<>>
    ELSE SortSeq([i \in 1..source_dictionary_count |-> i],
                 LAMBDA a, b : Compare(compare_func, p_source_dictionary[a],
                                       p_source_dictionary[b]) < 0)

\* qsort of the first count structures themselves (hard-mode compaction)
qsort_entries(p_data, count, compare_func) ==
    LET head == SortSeq(SubSeq(p_data, 1, count),
                        LAMBDA e1, e2 : Compare(compare_func, e1, e2) < 0)
    IN  head \o SubSeq(p_data, count + 1, Len(p_data))

----------------------------------------------------------------------------
(* ConstraintTracker and DictionaryFilter: solver_logic.cpp *)

ZeroCounts == [c \in Letters |-> 0]

\* a variant that counts every copy the guess holds of a letter it found
CountGuessCopies(guess, result_pattern, min_required_counts) ==
    [c \in Letters |->
        Max(min_required_counts[c],
            IF \E i \in Positions : guess[i] = c /\ result_pattern[i] \in {"G", "Y"}
            THEN Occurrences(guess, c) ELSE 0)]

\* a variant that stores this turn's counts, whatever was known before
AssignTurnCounts(guess, result_pattern, min_required_counts) ==
    [c \in Letters |->
        Cardinality({i \in Positions : guess[i] = c /\ result_pattern[i] \in {"G", "Y"}})]

update_min_required_counts(guess, result_pattern, min_required_counts) ==
    LET current_turn_counts ==
            [c \in Letters |->
                Cardinality({i \in Positions :
                    guess[i] = c /\ result_pattern[i] \in {"G", "Y"}})]
    IN  [c \in Letters |->
            IF current_turn_counts[c] > min_required_counts[c]
            THEN current_turn_counts[c] ELSE min_required_counts[c]]

\* a variant that sets the flag from the comparison alone, whatever it was
\* a variant that also eliminates every word holding a letter the pattern marks absent
FilterEntryGrayAbsent(pEntry, guess, result_pattern) ==
    IF pEntry.is_eliminated THEN pEntry
    ELSE IF \/ get_feedback_pattern(guess, pEntry.word) # result_pattern
            \/ \E i \in Positions :
                  result_pattern[i] = "B" /\ Occurrences(pEntry.word, guess[i]) > 0
         THEN [pEntry EXCEPT !.is_eliminated = TRUE]
         ELSE pEntry

FilterEntryReassign(pEntry, guess, result_pattern) ==
    [pEntry EXCEPT !.is_eliminated = (get_feedback_pattern(guess, pEntry.word) # result_pattern)]

\* does entry i keep its flag or get eliminated by (guess, result_pattern)
FilterEntry(pEntry, guess, result_pattern) ==
    IF pEntry.is_eliminated THEN pEntry
    ELSE IF get_feedback_pattern(guess, pEntry.word) # result_pattern
         THEN [pEntry EXCEPT !.is_eliminated = TRUE]
         ELSE pEntry

\* a variant whose loop starts at the second entry
FilterFromSecond(p_dictionary, count, guess, result_pattern) ==
    Array([i \in 1..Len(p_dictionary) |->
        IF i > count \/ i = 1 THEN p_dictionary[i]
        ELSE FilterEntry(p_dictionary[i], guess, result_pattern)])

\* a variant whose loop runs over the whole array instead of the first count entries
FilterWholeArray(p_dictionary, count, guess, result_pattern) ==
    Array([i \in 1..Len(p_dictionary) |-> FilterEntry(p_dictionary[i], guess, result_pattern)])

filter_dictionary_by_constraints(p_dictionary, count, guess, result_pattern) ==
    Array([i \in 1..Len(p_dictionary) |->
        IF i > count THEN p_dictionary[i]
        ELSE FilterEntry(p_dictionary[i], guess, result_pattern)])

----------------------------------------------------------------------------
(* HybridConfig (hybrid_strategies.h) and the registry ALL_STRATEGIES          *)
(* (hybrid_strategies.cpp).  A NULL override word is <<>>; the tolerance is    *)
(* in thousandths.                                                             *)

NoWord == <<>>

Strategy(name, base, ling, lingStart, risk, vowels, anchors, contingency, lookAhead, tolerance, opener, heatmap, second, coverage) ==
    [name |-> name, base_strategy_index |-> base, use_linguistic_filter |-> ling,
     linguistic_filter_start_turn |-> lingStart, use_risk_filter |-> risk,
     prioritize_new_vowels |-> vowels, prioritize_anchors |-> anchors,
     prioritize_vowel_contingency |-> contingency, look_ahead_depth |-> lookAhead,
     rank_priority_tolerance |-> tolerance, opener_override_word |-> opener,
     use_heatmap_priority |-> heatmap, second_opener_override_word |-> second,
     prioritize_turn2_coverage |-> coverage]

AUDIO == <<"A", "U", "D", "I", "O">>
ADIEU == <<"A", "D", "I", "E", "U">>
SALET == <<"S", "A", "L", "E", "T">>
COURD == <<"C", "O", "U", "R", "D">>

\* ALL_STRATEGIES[k] of the code is ALL_STRATEGIES[k + 1] here
ALL_STRATEGIES == <<
    Strategy("Entropy Linguist (Strict)", -1, TRUE, 1, FALSE, FALSE, FALSE, FALSE, 0, 0, NoWord, FALSE, NoWord, FALSE),
    Strategy("Entropy Raw (Baseline)", 0, FALSE, 99, FALSE, FALSE, FALSE, FALSE, 0, 0, NoWord, FALSE, NoWord, FALSE),
    Strategy("Legacy Reborn (Smart)", -1, TRUE, 1, TRUE, FALSE, FALSE, FALSE, 0, 500, NoWord, FALSE, NoWord, FALSE),
    Strategy("Vowel Hunter (Audio)", -1, TRUE, 1, FALSE, TRUE, FALSE, FALSE, 0, 0, AUDIO, FALSE, NoWord, FALSE),
    Strategy("Vowel Hunter (Adieu)", -1, TRUE, 1, FALSE, TRUE, FALSE, FALSE, 0, 0, ADIEU, FALSE, NoWord, FALSE),
    Strategy("Vowel Contingency", -1, TRUE, 1, FALSE, FALSE, FALSE, TRUE, 0, 0, NoWord, FALSE, NoWord, FALSE),
    Strategy("Pattern Hunter (Anchor)", -1, TRUE, 1, FALSE, FALSE, TRUE, FALSE, 0, 0, NoWord, FALSE, NoWord, FALSE),
    Strategy("Progressive (Skip T1)", -1, TRUE, 2, FALSE, FALSE, FALSE, FALSE, 0, 0, NoWord, FALSE, NoWord, FALSE),
    Strategy("Progressive (Skip T1-2)", -1, TRUE, 3, FALSE, FALSE, FALSE, FALSE, 0, 0, NoWord, FALSE, NoWord, FALSE),
    Strategy("Look Ahead (Pruned)", -1, TRUE, 1, FALSE, FALSE, FALSE, FALSE, 1, 0, NoWord, FALSE, NoWord, FALSE),
    Strategy("Entropy Filtered", 1, FALSE, 99, FALSE, FALSE, FALSE, FALSE, 0, 0, NoWord, FALSE, NoWord, FALSE),
    Strategy("Rank Raw", 2, FALSE, 99, FALSE, FALSE, FALSE, FALSE, 0, 0, NoWord, FALSE, NoWord, FALSE),
    Strategy("Rank Filtered", 3, FALSE, 99, FALSE, FALSE, FALSE, FALSE, 0, 0, NoWord, FALSE, NoWord, FALSE),
    Strategy("Hybrid Apex (Strict)", -1, TRUE, 1, TRUE, FALSE, FALSE, TRUE, 1, 250, NoWord, FALSE, NoWord, FALSE),
    Strategy("Deep Linguist", -1, TRUE, 1, FALSE, FALSE, FALSE, FALSE, 1, 0, NoWord, FALSE, NoWord, FALSE),
    Strategy("Hybrid Apex II (Safe)", -1, TRUE, 1, FALSE, FALSE, FALSE, FALSE, 1, 100, NoWord, FALSE, NoWord, FALSE),
    Strategy("Heatmap Seeker", -1, TRUE, 1, FALSE, FALSE, FALSE, FALSE, 0, 0, NoWord, TRUE, NoWord, FALSE),
    Strategy("Dynamic Two-Step (Coverage)", -1, TRUE, 1, FALSE, FALSE, FALSE, FALSE, 0, 0, NoWord, FALSE, NoWord, TRUE),
    Strategy("Double Barrel (Salet/Courd)", -1, TRUE, 1, FALSE, FALSE, FALSE, FALSE, 0, 0, SALET, FALSE, COURD, FALSE) >>

----------------------------------------------------------------------------
(* StrategyEngine helpers: solver_logic.cpp *)

is_linguistically_sound(pEntry) ==
    ~(pEntry.noun_type = "P" \/ pEntry.verb_type = "T" \/ pEntry.verb_type = "S")

\* some letter is used more than once and more often than the known minimum
is_risky_guess(pEntry, min_required_counts) ==
    \E c \in Letters :
        /\ Occurrences(pEntry.word, c) > 1
        /\ Occurrences(pEntry.word, c) > min_required_counts[c]

Vowels == {"A", "E", "I", "O", "U", "Y"}

count_known_vowels(min_required_counts) ==
    Cardinality({c \in Vowels : min_required_counts[c] > 0})

count_new_vowels(word, min_required_counts) ==
    Cardinality({c \in Vowels :
        (\E i \in Positions : word[i] = c) /\ min_required_counts[c] = 0})

calculate_anchor_score(word) ==
    (IF word[5] = "Y" THEN 3 ELSE IF word[5] = "E" THEN 2 ELSE 0)
        + (IF word[3] \in {"A", "E", "I", "O", "U"} THEN 1 ELSE 0)

count_unique_vowels_simple(word) ==
    Cardinality({c \in Vowels : \E i \in Positions : word[i] = c})

calculate_new_letter_coverage(word, min_required_counts) ==
    Cardinality({c \in Letters :
        (\E i \in Positions : word[i] = c) /\ min_required_counts[c] = 0})

\* heatmap[j][c]: how many non-eliminated entries of the view hold c at position j
build_heatmap_matrix(pool, p_dictionary, count) ==
    [j \in Positions |-> [c \in Letters |->
        Cardinality({i \in 1..count :
            ~pool[p_dictionary[i]].is_eliminated /\ pool[p_dictionary[i]].word[j] = c})]]

get_heatmap_score(word, heatmap) ==
    SumSeq([j \in Positions |-> heatmap[j][word[j]]])

\* a variant in which the soft clamp is applied on top of the doomsday penalty
LookaheadPenaltyStacked(total_score, max_bucket, valid_count, turn) ==
    total_score - (IF max_bucket > MAX_GUESSES - turn THEN 100000 ELSE 0)
                - (IF valid_count > 4 /\ max_bucket > (valid_count \div 2) + 1 THEN 5000 ELSE 0)

\* the doomsday rule (a bucket larger than the guesses remaining: -100) and
\* the soft clamp (a bucket over half the answers: -5), in thousandths
LookaheadPenalty(total_score, max_bucket, valid_count, turn) ==
    IF max_bucket > MAX_GUESSES - turn THEN total_score - 100000
    ELSE IF valid_count > 4 /\ max_bucket > (valid_count \div 2) + 1
         THEN total_score - 5000
         ELSE total_score

\* log10(n^2 / sum of squares) + 0.04 per singleton bucket (after turn 1)
LookaheadScore(bucket, valid_count, turn) ==
    LookaheadPenalty(
        2 * Log10Milli[valid_count] - Log10Milli[SumSeq(bucket)]
            + (IF turn > 1 THEN Cardinality({i \in DOMAIN bucket : bucket[i] = 1}) * 40 ELSE 0),
        CHOOSE m \in {bucket[i] : i \in DOMAIN bucket} : \A i \in DOMAIN bucket : bucket[i] <= m,
        valid_count, turn)

\* the look-ahead score of a candidate over the first valid_count entries of the
\* rank view
calculate_lookahead_bonus(candidate, pool, p_rank_sorted, valid_count, turn) ==
    IF valid_count <= 1 THEN 0
    ELSE LookaheadScore(
             BucketSizes(Array([i \in 1..valid_count |->
                 lookahead_feedback_index(candidate.word, pool[p_rank_sorted[i]].word)])),
             valid_count, turn)

\* the filters of the early stages and of the rank loop: linguistic (from its
\* start turn on) and risk
apply_ling(cfg, turn) ==
    cfg.use_linguistic_filter /\ turn >= cfg.linguistic_filter_start_turn

StandardPass(cand, cfg, min_required_counts, turn) ==
    /\ ~(apply_ling(cfg, turn) /\ ~is_linguistically_sound(cand))
    /\ ~(cfg.use_risk_filter /\ is_risky_guess(cand, min_required_counts))

\* a running "best so far" of a scan: the candidate replaces the best when its
\* primary key is greater, or equal with a greater secondary key
Better(primary, secondary, best) ==
    \/ primary > best.primary
    \/ primary = best.primary /\ secondary > best.secondary

\* Strategy D (turn-2 coverage): the scan of the rank view from index i on
RECURSIVE CoverageScan(_, _, _, _, _, _, _)
CoverageScan(pool, p_rank_sorted, scan_limit, cfg, min_required_counts, i, best) ==
    IF i > scan_limit THEN best.cand
    ELSE LET cand == pool[p_rank_sorted[i]]
             pass == StandardPass(cand, cfg, min_required_counts, 2) /\ ~cand.is_eliminated
             cov  == calculate_new_letter_coverage(cand.word, min_required_counts)
         IN  IF pass /\ cov > best.primary
             THEN CoverageScan(pool, p_rank_sorted, scan_limit, cfg, min_required_counts,
                               i + 1, [primary |-> cov, secondary |-> 0,
                                       cand |-> p_rank_sorted[i]])
             ELSE CoverageScan(pool, p_rank_sorted, scan_limit, cfg, min_required_counts,
                               i + 1, best)

\* Strategies A and B: the scan of the top of the entropy view; kind names the score
EarlyScore(kind, cand, cfg, min_required_counts) ==
    CASE kind = "contingency" -> count_new_vowels(cand.word, min_required_counts)
      [] kind = "bias" -> IF cfg.prioritize_anchors
                          THEN calculate_anchor_score(cand.word)
                          ELSE count_unique_vowels_simple(cand.word)

RECURSIVE EarlyScan(_, _, _, _, _, _, _, _, _)
EarlyScan(kind, pool, p_entropy_sorted, scan, cfg, min_required_counts, turn, i, best) ==
    IF i > scan THEN best.cand
    ELSE LET cand == pool[p_entropy_sorted[i]]
             pass == StandardPass(cand, cfg, min_required_counts, turn)
             sc   == EarlyScore(kind, cand, cfg, min_required_counts)
         IN  IF pass /\ Better(sc, cand.entropy, best)
             THEN EarlyScan(kind, pool, p_entropy_sorted, scan, cfg, min_required_counts,
                            turn, i + 1, [primary |-> sc, secondary |-> cand.entropy,
                                          cand |-> p_entropy_sorted[i]])
             ELSE EarlyScan(kind, pool, p_entropy_sorted, scan, cfg, min_required_counts,
                            turn, i + 1, best)

\* heatmap priority: the first scan_depth passing candidates of the entropy view
RECURSIVE HeatmapScan(_, _, _, _, _, _, _, _, _, _)
HeatmapScan(pool, p_entropy_sorted, count, cfg, min_required_counts, turn, heatmap, i, scanned, best) ==
    IF i > count \/ scanned >= 20 THEN best.cand
    ELSE LET cand == pool[p_entropy_sorted[i]]
             pass == StandardPass(cand, cfg, min_required_counts, turn)
             score == get_heatmap_score(cand.word, heatmap)
         IN  IF ~pass
             THEN HeatmapScan(pool, p_entropy_sorted, count, cfg, min_required_counts,
                              turn, heatmap, i + 1, scanned, best)
             ELSE HeatmapScan(pool, p_entropy_sorted, count, cfg, min_required_counts,
                              turn, heatmap, i + 1, scanned + 1,
                              IF score > best.primary
                              THEN [primary |-> score, secondary |-> 0,
                                    cand |-> p_entropy_sorted[i]]
                              ELSE best)

NoBest == [primary |-> -1, secondary |-> -1, cand |-> NULL]

\* the filters of the main loop: skipped for an endgame solver; the linguistic
\* filter is switched off in panic mode, the risk filter is not
MainLoopPass(cand, cfg, min_required_counts, valid_count, turn) ==
    LET is_endgame_panic == valid_count <= 20
        is_endgame_solver == ~cand.is_eliminated /\ valid_count <= 10
        ling == apply_ling(cfg, turn) /\ ~is_endgame_panic
    IN  \/ is_endgame_solver
        \/ /\ ~(ling /\ ~is_linguistically_sound(cand))
           /\ ~(cfg.use_risk_filter /\ is_risky_guess(cand, min_required_counts))

\* a variant without the panic clamp on Look Ahead
LookAheadUnclamped(cfg, valid_count) ==
    cfg.look_ahead_depth > 0

\* Look Ahead is applied only when configured and not in panic mode
UsesLookAhead(cfg, valid_count) ==
    cfg.look_ahead_depth > 0 /\ ~(valid_count <= 20)

MainLoopScore(cand, pool, p_rank_sorted, cfg, valid_count, turn) ==
    IF UsesLookAhead(cfg, valid_count)
    THEN cand.entropy + calculate_lookahead_bonus(cand, pool, p_rank_sorted, valid_count, turn)
    ELSE cand.entropy

\* what one passing candidate does to the loop's variables (acc); skipped and
\* bonused are observations: the candidates a filter skipped, those given a bonus
MainLoopEvaluate(acc, cand_ptr, current_score, with_bonus) ==
    [best_combined_score |-> IF current_score > acc.best_combined_score
                             THEN current_score ELSE acc.best_combined_score,
     best_final_candidate |-> IF current_score > acc.best_combined_score
                              THEN cand_ptr ELSE acc.best_final_candidate,
     candidates_evaluated |-> acc.candidates_evaluated + 1,
     skipped |-> acc.skipped,
     bonused |-> IF with_bonus THEN acc.bonused \cup {cand_ptr} ELSE acc.bonused]

\* Strategy C, the loop over the entropy view from index i on
RECURSIVE MainLoop(_, _, _, _, _, _, _, _, _, _)
MainLoop(pool, p_entropy_sorted, p_rank_sorted, count, cfg, min_required_counts, valid_count, turn, i, acc) ==
    IF i > count \/ acc.candidates_evaluated >= (IF UsesLookAhead(cfg, valid_count) THEN PRUNE_COUNT ELSE count)
    THEN acc
    ELSE MainLoop(pool, p_entropy_sorted, p_rank_sorted, count, cfg, min_required_counts, valid_count, turn, i + 1,
                  IF MainLoopPass(pool[p_entropy_sorted[i]], cfg, min_required_counts, valid_count, turn)
                  THEN MainLoopEvaluate(acc, p_entropy_sorted[i],
                                        MainLoopScore(pool[p_entropy_sorted[i]], pool, p_rank_sorted, cfg, valid_count, turn),
                                        UsesLookAhead(cfg, valid_count))
                  ELSE [acc EXCEPT !.skipped = @ \cup {p_entropy_sorted[i]}])

MainLoopStart ==
    [best_combined_score |-> -1000000, best_final_candidate |-> NULL,
     candidates_evaluated |-> 0, skipped |-> {}, bonused |-> {}]

\* a variant without the fallback to the head of the entropy view
NoFallback(best_final_candidate, p_entropy_sorted) == best_final_candidate

\* if (best_final_candidate == NULL) best_final_candidate = p_entropy_sorted[0]
FallbackCandidate(best_final_candidate, p_entropy_sorted) ==
    IF best_final_candidate = NULL THEN p_entropy_sorted[1] ELSE best_final_candidate

\* the filters of the rank tie-breaker loop
RankLoopPass(cand, cfg, min_required_counts, valid_count, turn) ==
    \/ ~cand.is_eliminated /\ valid_count <= 10
    \/ StandardPass(cand, cfg, min_required_counts, turn)

\* the first element of a non-empty set of indices
FirstIndex(S) == CHOOSE i \in S : \A j \in S : i <= j

\* best_rank_cand: the first passing entry of the rank view, else its first entry
RankLoop(pool, p_rank_sorted, passing) ==
    IF passing = {} THEN p_rank_sorted[1] ELSE p_rank_sorted[FirstIndex(passing)]

\* the rank tie-breaker: outside panic mode, a configured tolerance lets the
\* best rank candidate replace a final candidate less than that ahead in entropy
RankTieBreak(pool, cfg, valid_count, best_final_candidate, best_rank_cand) ==
    IF /\ cfg.rank_priority_tolerance > 0
       /\ ~(valid_count <= 20)
       /\ pool[best_final_candidate].entropy - pool[best_rank_cand].entropy < cfg.rank_priority_tolerance
    THEN best_rank_cand
    ELSE best_final_candidate

\* the picks of the four early stages; NULL when the stage does not apply or
\* no candidate passes
CoveragePick(pool, p_rank_sorted, count, cfg, min_required_counts, turn) ==
    IF cfg.prioritize_turn2_coverage /\ turn = 2
    THEN CoverageScan(pool, p_rank_sorted, Min(count, 100), cfg, min_required_counts, 1, NoBest)
    ELSE NULL

ContingencyPick(pool, p_entropy_sorted, count, cfg, min_required_counts, turn) ==
    IF cfg.prioritize_vowel_contingency /\ turn = 2 /\ count_known_vowels(min_required_counts) < 2
    THEN EarlyScan("contingency", pool, p_entropy_sorted, Min(count, 30), cfg, min_required_counts, turn, 1, NoBest)
    ELSE NULL

EarlyBiasPick(pool, p_entropy_sorted, count, cfg, min_required_counts, turn) ==
    IF turn <= 2 /\ (cfg.prioritize_new_vowels \/ cfg.prioritize_anchors)
    THEN EarlyScan("bias", pool, p_entropy_sorted, Min(count, 30), cfg, min_required_counts, turn, 1, NoBest)
    ELSE NULL

HeatmapPick(pool, p_entropy_sorted, count, cfg, min_required_counts, valid_count, turn) ==
    IF cfg.use_heatmap_priority /\ valid_count > 2
    THEN HeatmapScan(pool, p_entropy_sorted, count, cfg, min_required_counts, turn,
                     build_heatmap_matrix(pool, p_entropy_sorted, count), 1, 0, NoBest)
    ELSE NULL

\* "if (pick != NULL) return pick;" before the next stage
OrElse(pick, next_stage) == IF pick # NULL THEN pick ELSE next_stage

\* the first early stage that returns a pick, NULL when none does
EarlyStagePick(pool, p_entropy_sorted, p_rank_sorted, count, cfg, min_required_counts, valid_count, turn) ==
    OrElse(CoveragePick(pool, p_rank_sorted, count, cfg, min_required_counts, turn),
    OrElse(ContingencyPick(pool, p_entropy_sorted, count, cfg, min_required_counts, turn),
    OrElse(EarlyBiasPick(pool, p_entropy_sorted, count, cfg, min_required_counts, turn),
           HeatmapPick(pool, p_entropy_sorted, count, cfg, min_required_counts, valid_count, turn))))

\* the loop variables of Strategy C when its loop ends
MainLoopResult(pool, p_entropy_sorted, p_rank_sorted, count, cfg, min_required_counts, valid_count, turn) ==
    MainLoop(pool, p_entropy_sorted, p_rank_sorted, count, cfg, min_required_counts, valid_count, turn, 1, MainLoopStart)

\* Strategy C with its rank tie-breaker
StandardHybridPick(pool, p_entropy_sorted, p_rank_sorted, count, cfg, min_required_counts, valid_count, turn) ==
    RankTieBreak(pool, cfg, valid_count,
        FallbackCandidate(
            MainLoopResult(pool, p_entropy_sorted, p_rank_sorted, count, cfg, min_required_counts, valid_count, turn).best_final_candidate,
            p_entropy_sorted),
        RankLoop(pool, p_rank_sorted,
                 {i \in 1..count : RankLoopPass(pool[p_rank_sorted[i]], cfg, min_required_counts, valid_count, turn)}))

\* the pointer get_smart_hybrid_guess returns; pool is the array both views point into
get_smart_hybrid_guess(pool, p_entropy_sorted, p_rank_sorted, count, cfg, min_required_counts, valid_count, turn) ==
    IF count = 0 THEN NULL
    ELSE OrElse(EarlyStagePick(pool, p_entropy_sorted, p_rank_sorted, count, cfg, min_required_counts, valid_count, turn),
                StandardHybridPick(pool, p_entropy_sorted, p_rank_sorted, count, cfg, min_required_counts, valid_count, turn))

meets_filtered_criteria(pEntry) ==
    /\ ~pEntry.contains_duplicate_letters
    /\ ~(pEntry.noun_type = "P" \/ pEntry.noun_type = "R")
    /\ ~(pEntry.verb_type # "N" /\ pEntry.verb_type # "P")

\* the first entry meeting the criteria before the first eliminated entry
FilteredPositions(pool, p_sorted_array, count) ==
    {i \in 1..count : /\ meets_filtered_criteria(pool[p_sorted_array[i]])
                      /\ \A j \in 1..i : ~pool[p_sorted_array[j]].is_eliminated}

find_filtered_candidate(pool, p_sorted_array, count) ==
    IF FilteredPositions(pool, p_sorted_array, count) = {} THEN NULL
    ELSE p_sorted_array[FirstIndex(FilteredPositions(pool, p_sorted_array, count))]

\* candidates[0..3].pEntry; requires count > 0
get_best_guess_candidates(pool, p_entropy_sorted, p_rank_sorted, count) ==
    << p_entropy_sorted[1],
       FallbackCandidate(find_filtered_candidate(pool, p_entropy_sorted, count), p_entropy_sorted),
       p_rank_sorted[1],
       FallbackCandidate(find_filtered_candidate(pool, p_rank_sorted, count), p_rank_sorted) >>

----------------------------------------------------------------------------
(* One simulated game: the body of the omp for loop of run_hybrid_strategy *)

\* a variant without the memcpy: the game starts on what the last game left
GameStartNoReset(master, p_thread_data) == p_thread_data

\* memcpy(p_thread_data, p_master_dictionary, ...): every game starts from the master
GameStartPool(master, p_thread_data) == master

\* a variant of the loop's condition that is off by one
LoopOneMore(turn) == turn <= MAX_GUESSES + 1

\* the game loop's condition, turn <= MAX_GUESSES
LoopContinues(turn) == turn <= MAX_GUESSES

StartGame(t, master, master_count, p_thread_data, opening) ==
    [t |-> t, p_thread_data |-> GameStartPool(master, p_thread_data),
     current_count |-> master_count, current_guess |-> opening,
     min_required_counts |-> ZeroCounts, won |-> FALSE, guesses_taken |-> 0,
     turn |-> 1, log |-> <<>>, over |-> FALSE]

\* the word of the first non-eliminated entry of a view, else the guess stays
FirstValidWord(pool, view, count, current_guess) ==
    IF \A i \in 1..count : pool[view[i]].is_eliminated THEN current_guess
    ELSE pool[view[FirstIndex({i \in 1..count : ~pool[view[i]].is_eliminated})]].word

\* the last-turn safety of the smart branch: an eliminated pick is replaced by the
\* first non-eliminated entry of the rank view
LastTurnSafety(pool, p_thread_view_rank, count, pNext, turn) ==
    IF turn = MAX_GUESSES /\ pool[pNext].is_eliminated
       /\ \E i \in 1..count : ~pool[p_thread_view_rank[i]].is_eliminated
    THEN p_thread_view_rank[FirstIndex({i \in 1..count : ~pool[p_thread_view_rank[i]].is_eliminated})]
    ELSE pNext

\* normal mode, the views built: the forced second opener, a simple strategy's
\* pick, or the smart pick
NormalModeSelect(pool, p_thread_view_ent, p_thread_view_rank, master_count, cfg, min_required_counts, validCount, turn, current_guess) ==
    IF turn = 1 /\ cfg.second_opener_override_word # NoWord
    THEN cfg.second_opener_override_word
    ELSE IF cfg.base_strategy_index # -1
    THEN IF cfg.base_strategy_index = 0 /\ turn # MAX_GUESSES
         THEN pool[p_thread_view_ent[1]].word
         ELSE FirstValidWord(pool, p_thread_view_ent, master_count, current_guess)
    ELSE pool[LastTurnSafety(pool, p_thread_view_rank, master_count,
                             get_smart_hybrid_guess(pool, p_thread_view_ent, p_thread_view_rank, master_count,
                                                    cfg, min_required_counts, validCount, turn + 1),
                             turn)].word

\* normal mode, the entropy recomputed: the two views over the whole array
NormalModeViews(pool, master_count, cfg, min_required_counts, validCount, turn, current_guess) ==
    [brk |-> FALSE, pool |-> pool, count |-> master_count,
     guess |-> NormalModeSelect(pool,
                   duplicate_dictionary_pointers(pool, master_count, "entropy_no_filter_desc"),
                   duplicate_dictionary_pointers(pool, master_count, "rank_desc"),
                   master_count, cfg, min_required_counts, validCount, turn, current_guess)]

\* normal-mode scan: the entropy of all candidates over the valid answers
NormalModeScan(p_thread_data, pp_thread_valid, master_count, cfg, min_required_counts, turn, current_guess) ==
    IF Len(pp_thread_valid) = 0
    THEN [brk |-> TRUE, pool |-> p_thread_data, count |-> master_count, guess |-> current_guess]
    ELSE NormalModeViews(
             calculate_entropy_for_candidates(p_thread_data, master_count, pp_thread_valid, Len(pp_thread_valid)),
             master_count, cfg, min_required_counts, Len(pp_thread_valid), turn, current_guess)

\* a variant that never shrinks the count
NewCountUnchanged(pool, current_count) == current_count

\* the index of the first eliminated entry of a compacted array (0-based), the
\* old count when there is none
NewCount(pool, current_count) ==
    IF \A i \in 1..current_count : ~pool[i].is_eliminated THEN current_count
    ELSE FirstIndex({i \in 1..current_count : pool[i].is_eliminated}) - 1

\* hard mode, the views built: a simple strategy's recommendation or the smart pick
HardModeSelect(pool, p_thread_view_ent, p_thread_view_rank, current_count, cfg, min_required_counts, turn) ==
    IF cfg.base_strategy_index # -1
    THEN pool[get_best_guess_candidates(pool, p_thread_view_ent, p_thread_view_rank,
                                        current_count)[cfg.base_strategy_index + 1]].word
    ELSE pool[get_smart_hybrid_guess(pool, p_thread_view_ent, p_thread_view_rank, current_count,
                                     cfg, min_required_counts, current_count, turn + 1)].word

\* hard mode, the array compacted to new_count valid entries: views over them
\* (their entropy is what the array already holds), then the pick
HardModeViews(pool, new_count, cfg, min_required_counts, turn, current_guess) ==
    IF new_count = 0
    THEN [brk |-> TRUE, pool |-> pool, count |-> 0, guess |-> current_guess]
    ELSE [brk |-> FALSE, pool |-> pool, count |-> new_count,
          guess |-> HardModeSelect(pool,
                        duplicate_dictionary_pointers(pool, new_count, "entropy_desc"),
                        duplicate_dictionary_pointers(pool, new_count, "rank_desc"),
                        new_count, cfg, min_required_counts, turn)]

\* hard-mode scan, the array sorted valid-first
HardModeScan(sorted, current_count, cfg, min_required_counts, turn, current_guess) ==
    HardModeViews(sorted, NewCount(sorted, current_count), cfg, min_required_counts, turn, current_guess)

\* the game record when a non-winning iteration ends; r is the scan's outcome
TurnEnd(g, min_required_counts, r) ==
    [t |-> g.t, p_thread_data |-> r.pool, current_count |-> r.count,
     current_guess |-> r.guess, min_required_counts |-> min_required_counts,
     won |-> FALSE, guesses_taken |-> g.turn,
     turn |-> IF r.brk THEN g.turn ELSE g.turn + 1,
     log |-> Append(g.log, g.current_guess),
     over |-> r.brk \/ ~LoopContinues(g.turn + 1)]

\* constraints updated and the array filtered: the scan of the mode
NextGuess(g, min_required_counts, filtered, cfg, isHardMode, master_count) ==
    TurnEnd(g, min_required_counts,
        IF ~isHardMode /\ (cfg.base_strategy_index = -1 \/ cfg.base_strategy_index <= 1)
        THEN NormalModeScan(filtered, ValidPointers(filtered, master_count), master_count, cfg,
                            min_required_counts, g.turn, g.current_guess)
        ELSE HardModeScan(qsort_entries(filtered, g.current_count, "eliminated_then_alpha"),
                          g.current_count, cfg, min_required_counts, g.turn, g.current_guess))

\* a non-winning guess: feedback, update_min_required_counts, filter
ProcessFeedback(g, result_pattern, cfg, isHardMode, master_count) ==
    NextGuess(g,
        update_min_required_counts(g.current_guess, result_pattern, g.min_required_counts),
        filter_dictionary_by_constraints(g.p_thread_data, g.current_count, g.current_guess, result_pattern),
        cfg, isHardMode, master_count)

\* one iteration of the game loop on game record g
PlayTurn(g, target_word, cfg, isHardMode, master_count) ==
    IF strncmp(g.current_guess, target_word, 1) = 0
    THEN [g EXCEPT !.guesses_taken = g.turn, !.won = TRUE, !.over = TRUE,
                   !.log = Append(@, g.current_guess)]
    ELSE ProcessFeedback(g, get_feedback_pattern(g.current_guess, target_word),
                         cfg, isHardMode, master_count)

\* a whole game played alone, from game record g to its end
RECURSIVE RunGame(_, _, _, _, _)
RunGame(g, target_word, cfg, isHardMode, master_count) ==
    IF g.over THEN g
    ELSE RunGame(PlayTurn(g, target_word, cfg, isHardMode, master_count),
                 target_word, cfg, isHardMode, master_count)

\* the opener of a configuration without override, the views built
OpenerSelect(p_opener, p_view_ent, p_view_rank, master_count, cfg) ==
    IF cfg.base_strategy_index # -1
    THEN p_opener[get_best_guess_candidates(p_opener, p_view_ent, p_view_rank,
                                            master_count)[cfg.base_strategy_index + 1]].word
    ELSE p_opener[get_smart_hybrid_guess(p_opener, p_view_ent, p_view_rank, master_count,
                                         cfg, ZeroCounts, master_count, 1)].word

\* the opener copy with its entropy computed: the two views
OpenerViews(p_opener, master_count, cfg) ==
    OpenerSelect(p_opener,
                 duplicate_dictionary_pointers(p_opener, master_count, "entropy_desc"),
                 duplicate_dictionary_pointers(p_opener, master_count, "rank_desc"),
                 master_count, cfg)

\* phase 1 of run_hybrid_strategy: the opening word
DetermineOpener(master, master_count, cfg) ==
    IF cfg.opener_override_word # NoWord THEN cfg.opener_override_word
    ELSE OpenerViews(calculate_entropy_on_dictionary(master, master_count), master_count, cfg)

----------------------------------------------------------------------------
(* Bounds and sample dictionaries of the main specification *)

NumWorkers == 2
MaxMaster == 5

Workers == 1..NumWorkers

\* words that differ in one letter only (a simulated game can run out of turns)
HatchWords == <<
    Entry(<<"B", "A", "T", "C", "H">>, 55, "S", "P"),
    Entry(<<"H", "A", "T", "C", "H">>, 60, "S", "P"),
    Entry(<<"M", "A", "T", "C", "H">>, 80, "S", "P"),
    Entry(<<"P", "A", "T", "C", "H">>, 65, "S", "P"),
    Entry(<<"W", "A", "T", "C", "H">>, 90, "S", "P"),
    Entry(<<"L", "A", "T", "C", "H">>, 40, "S", "P"),
    Entry(<<"C", "A", "T", "C", "H">>, 85, "S", "P") >>

\* words with anagrams, a plural / third-person form and a duplicate letter
MixedWords == <<
    Entry(<<"C", "R", "A", "N", "E">>, 50, "S", "P"),
    Entry(<<"T", "R", "A", "C", "E">>, 70, "S", "P"),
    Entry(<<"C", "A", "R", "E", "S">>, 45, "P", "S"),
    Entry(<<"S", "P", "E", "E", "D">>, 75, "S", "P"),
    Entry(<<"A", "B", "I", "D", "E">>, 30, "N", "P"),
    Entry(<<"R", "E", "A", "C", "T">>, 65, "N", "P"),
    Entry(<<"C", "A", "T", "E", "R">>, 35, "N", "P") >>

Dictionaries == <<HatchWords, MixedWords>>

\* load_dictionary: the first n words of a file, entropy 0 and not eliminated,
\* then calculate_entropy_on_dictionary over all of them
load_dictionary(file, n) ==
    calculate_entropy_on_dictionary(SubSeq(file, 1, n), n)

\* the configurations handed to run_hybrid_strategy: the roster of
\* run_monte_carlo_simulation (ALL_STRATEGIES[0], [9], [5], [2]) and, the function
\* taking any HybridConfig, Double Barrel and Rank Filtered
Roster == {1, 10, 6, 3}
SimConfigs == Roster \cup {19, 13}

----------------------------------------------------------------------------
(* Idle values of the three function harnesses and of the main program *)

FbIdle == [called |-> FALSE, guess |-> NoWord, answer |-> NoWord, result_pattern |-> NoWord,
           indexed |-> FALSE, index |-> 0, lookahead_indexed |-> FALSE, lookahead_index |-> 0]
FlIdle == [called |-> FALSE, before |-> <<>>, n |-> 0, guess |-> NoWord,
           result_pattern |-> NoWord, after |-> <<>>]
SelIdle == [called |-> FALSE, pool |-> <<>>, p_entropy_sorted |-> <<>>, p_rank_sorted |-> <<>>,
            count |-> 0, min_required_counts |-> ZeroCounts, valid_count |-> 0,
            cfg |-> 0, turn |-> 0, early |-> NULL, skipped |-> {}, bonused |-> {},
            result |-> NULL]

CallIdle == [op |-> "none"]

HarnessesIdle == fb = FbIdle /\ fl = FlIdle /\ sel = SelIdle /\ call = CallIdle

NoGame == [t |-> 0, p_thread_data |-> <<>>, current_count |-> 0, current_guess |-> NoWord,
           min_required_counts |-> ZeroCounts, won |-> FALSE, guesses_taken |-> 0,
           turn |-> 0, log |-> <<>>, over |-> TRUE]

ZeroDistribution == [i \in 0..MAX_GUESSES |-> 0]

ZeroStats == [wins |-> 0, losses |-> 0, total_guesses |-> 0,
              guess_distribution |-> ZeroDistribution]

NewWorker == [pc |-> "start", alloc |-> FALSE, local_distribution |-> ZeroDistribution,
              g |-> NoGame]

IaIdle == [pc |-> "off", p_possibleAnswers_data |-> <<>>, possibleAnswers_count |-> 0,
           total_dictionary_size |-> 0, p_entropy_sorted |-> <<>>, p_rank_sorted |-> <<>>,
           min_required_counts |-> ZeroCounts, g_tryIdx |-> 0, pSmartPick |-> NULL]

\* the main program not started: the state of the function harnesses' runs
MainIdle ==
    /\ g_isHardMode = FALSE /\ g_isInteractivePlay = FALSE
    /\ config = 1 /\ p_master_dictionary = <<>>
    /\ phase = "off" /\ p_opener_data = "none" /\ opening_word = NoWord
    /\ stats = ZeroStats /\ next_t = 1
    /\ thr = [w \in Workers |-> NewWorker]
    /\ games = <<>> /\ ia = IaIdle

----------------------------------------------------------------------------
(* The main program: main(), run_hybrid_strategy, run_interactive_mode *)

master_count == Len(p_master_dictionary)

Init ==
    /\ HarnessesIdle
    /\ g_isHardMode \in BOOLEAN
    /\ g_isInteractivePlay \in BOOLEAN
    /\ \E d \in 1..Len(Dictionaries), n \in 1..MaxMaster :
          p_master_dictionary = load_dictionary(Dictionaries[d], n)
    /\ config \in (IF g_isInteractivePlay THEN {1} ELSE SimConfigs)
    /\ phase = IF g_isInteractivePlay THEN "interactive" ELSE "entry"
    /\ p_opener_data = "none"
    /\ opening_word = NoWord
    /\ stats = ZeroStats
    /\ next_t = 1
    /\ thr = [w \in Workers |-> NewWorker]
    /\ games = [t \in 1..master_count |-> [count |-> 0, won |-> FALSE, guesses_taken |-> 0, worker |-> 0]]
    /\ ia = IF g_isInteractivePlay
            THEN [IaIdle EXCEPT !.pc = "turn",
                    !.p_possibleAnswers_data = p_master_dictionary,
                    !.possibleAnswers_count = master_count,
                    !.total_dictionary_size = master_count,
                    !.p_entropy_sorted = duplicate_dictionary_pointers(p_master_dictionary, master_count, "entropy_desc"),
                    !.p_rank_sorted = duplicate_dictionary_pointers(p_master_dictionary, master_count, "rank_desc"),
                    !.g_tryIdx = 1]
            ELSE IaIdle

simVars == <<fb, fl, sel, call, g_isHardMode, g_isInteractivePlay, config, p_master_dictionary, ia>>

\* malloc of the opener copy fails: return stats
OpenerAllocFails ==
    /\ phase = "entry"
    /\ phase' = "returned"
    /\ p_opener_data' = "NULL"
    /\ UNCHANGED <<simVars, opening_word, stats, next_t, thr, games>>

\* phase 1: the opener is determined on the main thread, then the team starts
OpenerPhase ==
    /\ phase = "entry"
    /\ phase' = "parallel"
    /\ p_opener_data' = "freed"
    /\ opening_word' = DetermineOpener(p_master_dictionary, master_count, ALL_STRATEGIES[config])
    /\ UNCHANGED <<simVars, stats, next_t, thr, games>>

\* a thread's two mallocs succeed: it enters the worksharing loop
ThreadAlloc(w) ==
    /\ phase = "parallel" /\ thr[w].pc = "start"
    \* what the fresh buffer holds is never read before the first memcpy
    /\ thr' = [thr EXCEPT ![w].pc = "loop", ![w].alloc = TRUE,
                          ![w].g = [NoGame EXCEPT !.p_thread_data = p_master_dictionary]]
    /\ UNCHANGED <<simVars, phase, p_opener_data, opening_word, stats, next_t, games>>

\* one of them fails: the thread skips the loop and goes on to the merge
ThreadAllocFails(w) ==
    /\ phase = "parallel" /\ thr[w].pc = "start"
    /\ thr' = [thr EXCEPT ![w].pc = "critical"]
    /\ UNCHANGED <<simVars, phase, p_opener_data, opening_word, stats, next_t, games>>

\* schedule(dynamic): the thread is handed the next iteration and starts its game
TakeIteration(w) ==
    /\ phase = "parallel" /\ thr[w].pc = "loop"
    /\ next_t <= master_count
    /\ next_t' = next_t + 1
    /\ thr' = [thr EXCEPT ![w].pc = "game",
                          ![w].g = StartGame(next_t, p_master_dictionary, master_count,
                                             thr[w].g.p_thread_data, opening_word)]
    /\ UNCHANGED <<simVars, phase, p_opener_data, opening_word, stats, games>>

\* no iteration is left: the thread waits at the barrier that ends the loop
LoopExhausted(w) ==
    /\ phase = "parallel" /\ thr[w].pc = "loop"
    /\ next_t > master_count
    /\ thr' = [thr EXCEPT ![w].pc = "barrier"]
    /\ UNCHANGED <<simVars, phase, p_opener_data, opening_word, stats, next_t, games>>

\* the thread after an iteration of its game loop left game record g
AfterTurn(worker, g) ==
    [worker EXCEPT !.g = g, !.pc = IF g.over THEN "record" ELSE "game"]

\* one turn of the thread's game, on its private data only
GameTurn(w) ==
    /\ phase = "parallel" /\ thr[w].pc = "game"
    /\ thr' = [thr EXCEPT ![w] =
                 AfterTurn(thr[w], PlayTurn(thr[w].g, p_master_dictionary[thr[w].g.t].word,
                                            ALL_STRATEGIES[config], g_isHardMode, master_count))]
    /\ UNCHANGED <<simVars, phase, p_opener_data, opening_word, stats, next_t, games>>

\* a variant that assigns the amount instead of adding it
AssignAmount(counter, amount) == amount

\* what an omp atomic update leaves in the shared counter
AtomicAdd(counter, amount) == counter + amount

Counted(w) ==
    [games EXCEPT ![thr[w].g.t] = [count |-> @.count + 1, won |-> thr[w].g.won,
                                   guesses_taken |-> thr[w].g.guesses_taken, worker |-> w]]

\* #pragma omp atomic: stats.wins++
RecordWin(w) ==
    /\ phase = "parallel" /\ thr[w].pc = "record" /\ thr[w].g.won
    /\ stats' = [stats EXCEPT !.wins = AtomicAdd(@, 1)]
    /\ games' = Counted(w)
    /\ thr' = [thr EXCEPT ![w].pc = "record_total"]
    /\ UNCHANGED <<simVars, phase, p_opener_data, opening_word, next_t>>

\* #pragma omp atomic: stats.total_guesses += guesses_taken; then the local histogram
RecordTotal(w) ==
    /\ phase = "parallel" /\ thr[w].pc = "record_total"
    /\ stats' = [stats EXCEPT !.total_guesses = AtomicAdd(@, thr[w].g.guesses_taken)]
    /\ thr' = [thr EXCEPT ![w].pc = "loop",
                          ![w].local_distribution[thr[w].g.guesses_taken] = @ + 1]
    /\ UNCHANGED <<simVars, phase, p_opener_data, opening_word, next_t, games>>

\* #pragma omp atomic: stats.losses++
RecordLoss(w) ==
    /\ phase = "parallel" /\ thr[w].pc = "record" /\ ~thr[w].g.won
    /\ stats' = [stats EXCEPT !.losses = AtomicAdd(@, 1)]
    /\ games' = Counted(w)
    /\ thr' = [thr EXCEPT ![w].pc = "loop"]
    /\ UNCHANGED <<simVars, phase, p_opener_data, opening_word, next_t>>

\* the implicit barrier of the omp for: every thread of the team has arrived (a
\* thread whose malloc failed counts as arrived once it is past the skipped loop)
PassBarrier(w) ==
    /\ phase = "parallel" /\ thr[w].pc = "barrier"
    /\ \A v \in Workers : thr[v].pc \in {"barrier", "critical", "done"}
    /\ thr' = [thr EXCEPT ![w].pc = "critical"]
    /\ UNCHANGED <<simVars, phase, p_opener_data, opening_word, stats, next_t, games>>

\* #pragma omp critical: merge the local histogram; then the buffers are freed
MergeCritical(w) ==
    /\ phase = "parallel" /\ thr[w].pc = "critical"
    /\ stats' = [stats EXCEPT !.guess_distribution =
                    [i \in 0..MAX_GUESSES |->
                        IF i >= 1 THEN @[i] + thr[w].local_distribution[i] ELSE @[i]]]
    /\ thr' = [thr EXCEPT ![w].pc = "done"]
    /\ UNCHANGED <<simVars, phase, p_opener_data, opening_word, next_t, games>>

\* some threads entered the worksharing loop and some did not
TeamMismatch ==
    /\ \E v \in Workers : thr[v].alloc
    /\ \E v \in Workers : ~thr[v].alloc /\ thr[v].pc # "start"

\* the end of the parallel region: every thread is done, the main thread returns stats
Return ==
    /\ phase = "parallel"
    /\ \A v \in Workers : thr[v].pc = "done"
    /\ phase' = "returned"
    /\ UNCHANGED <<simVars, p_opener_data, opening_word, stats, next_t, thr, games>>

\* a team whose threads did not all meet the worksharing loop is outside the
\* OpenMP rules: the main thread (thread 0), once at the end of the region, may go on
\* while others still run (or may wait forever: the behaviour that stops here)
ReturnAfterMismatch ==
    /\ phase = "parallel"
    /\ TeamMismatch
    /\ thr[1].pc = "done"
    /\ \E v \in Workers : thr[v].pc # "done"
    /\ phase' = "returned"
    /\ UNCHANGED <<simVars, p_opener_data, opening_word, stats, next_t, thr, games>>

\* the loop variables when an iteration ends with count candidates, their
\* entropy recomputed: the views rebuilt, the next try
InteractiveViews(a, min_required_counts, data, count, compare_ent) ==
    [a EXCEPT !.min_required_counts = min_required_counts,
              !.p_possibleAnswers_data = data,
              !.possibleAnswers_count = count,
              !.p_entropy_sorted = duplicate_dictionary_pointers(data, count, compare_ent),
              !.p_rank_sorted = duplicate_dictionary_pointers(data, count, "rank_desc"),
              !.g_tryIdx = @ + 1,
              !.pc = IF a.g_tryIdx + 1 <= MAX_GUESSES THEN "turn" ELSE "done"]

\* "CRITICAL: No words remaining!": the loop breaks
InteractiveBreak(a, min_required_counts, data, count) ==
    [a EXCEPT !.min_required_counts = min_required_counts,
              !.p_possibleAnswers_data = data,
              !.possibleAnswers_count = count, !.pc = "done"]

\* normal mode: all words stay candidates, scored against the valid answers
InteractiveNormal(a, min_required_counts, filtered, ppValidAnswers) ==
    IF Len(ppValidAnswers) = 0
    THEN InteractiveBreak(a, min_required_counts, filtered, a.possibleAnswers_count)
    ELSE InteractiveViews(a, min_required_counts,
             calculate_entropy_for_candidates(filtered, a.total_dictionary_size,
                                              ppValidAnswers, Len(ppValidAnswers)),
             a.total_dictionary_size, "entropy_no_filter_desc")

\* hard mode: the array sorted valid-first and shrunk, entropy over what is left
InteractiveHard(a, min_required_counts, sorted, new_count) ==
    IF new_count = 0
    THEN InteractiveBreak(a, min_required_counts, sorted, 0)
    ELSE InteractiveViews(a, min_required_counts,
             calculate_entropy_on_dictionary(sorted, new_count), new_count, "entropy_desc")

\* the array filtered: step 8 of the loop, by mode
InteractiveRescore(a, isHardMode, min_required_counts, filtered, sorted) ==
    IF ~isHardMode
    THEN InteractiveNormal(a, min_required_counts, filtered,
                           ValidPointers(filtered, a.total_dictionary_size))
    ELSE InteractiveHard(a, min_required_counts, sorted, NewCount(sorted, a.possibleAnswers_count))

\* the filter of step 7 and the hard-mode compaction sort
InteractiveFilter(a, isHardMode, min_required_counts, filtered) ==
    InteractiveRescore(a, isHardMode, min_required_counts, filtered,
        qsort_entries(filtered, a.possibleAnswers_count, "eliminated_then_alpha"))

\* the rest of one iteration of the interactive loop, after the input passed the
\* win check: constraints, filter, entropy, views
InteractiveUpdate(a, isHardMode, user_guess, result_pattern) ==
    InteractiveFilter(a, isHardMode,
        update_min_required_counts(user_guess, result_pattern, a.min_required_counts),
        filter_dictionary_by_constraints(a.p_possibleAnswers_data, a.possibleAnswers_count,
                                         user_guess, result_pattern))

\* the call of get_smart_hybrid_guess with the champion configuration
InteractiveSmartPick(a, isHardMode, validCount) ==
    get_smart_hybrid_guess(a.p_possibleAnswers_data, a.p_entropy_sorted, a.p_rank_sorted,
                           IF isHardMode THEN validCount ELSE a.total_dictionary_size,
                           ALL_STRATEGIES[1], a.min_required_counts, validCount, a.g_tryIdx)

\* the bot's recommendation at the top of an iteration
InteractivePick(a, isHardMode) ==
    InteractiveSmartPick(a, isHardMode,
        Len(ValidPointers(a.p_possibleAnswers_data, a.total_dictionary_size)))

\* what the user may type: a word of the dictionary and a feedback pattern
UserGuesses == {p_master_dictionary[i].word : i \in 1..master_count}
UserPatterns(user_guess) ==
    {get_feedback_pattern(user_guess, w) : w \in UserGuesses} \cup {<<"B", "B", "B", "B", "B">>}

\* one iteration of the loop of run_interactive_mode with a valid input
InteractiveTurn ==
    /\ phase = "interactive" /\ ia.pc = "turn"
    /\ \E user_guess \in UserGuesses : \E result_pattern \in UserPatterns(user_guess) :
          ia' = IF result_pattern = <<"G", "G", "G", "G", "G">>
                THEN [ia EXCEPT !.pSmartPick = InteractivePick(ia, g_isHardMode), !.pc = "done"]
                ELSE InteractiveUpdate([ia EXCEPT !.pSmartPick = InteractivePick(ia, g_isHardMode)],
                                       g_isHardMode, user_guess, result_pattern)
    /\ UNCHANGED <<fb, fl, sel, call, g_isHardMode, g_isInteractivePlay, config, p_master_dictionary,
                   phase, p_opener_data, opening_word, stats, next_t, thr, games>>

\* the user types q
InteractiveQuit ==
    /\ phase = "interactive" /\ ia.pc = "turn"
    /\ ia' = [ia EXCEPT !.pSmartPick = InteractivePick(ia, g_isHardMode), !.pc = "done"]
    /\ UNCHANGED <<fb, fl, sel, call, g_isHardMode, g_isInteractivePlay, config, p_master_dictionary,
                   phase, p_opener_data, opening_word, stats, next_t, thr, games>>

Next ==
    \/ OpenerAllocFails
    \/ OpenerPhase
    \/ \E w \in Workers : ThreadAlloc(w)
    \/ \E w \in Workers : ThreadAllocFails(w)
    \/ \E w \in Workers : TakeIteration(w)
    \/ \E w \in Workers : LoopExhausted(w)
    \/ \E w \in Workers : GameTurn(w)
    \/ \E w \in Workers : RecordWin(w)
    \/ \E w \in Workers : RecordTotal(w)
    \/ \E w \in Workers : RecordLoss(w)
    \/ \E w \in Workers : PassBarrier(w)
    \/ \E w \in Workers : MergeCritical(w)
    \/ Return
    \/ ReturnAfterMismatch
    \/ InteractiveTurn
    \/ InteractiveQuit

Spec == Init /\ [][Next]_vars

\* the thread is between two iterations of the loop of one game
InGame(w) == phase = "parallel" /\ thr[w].pc = "game"

\* the thread has finished a game and not yet recorded it
GameOver(w) == phase = "parallel" /\ thr[w].pc = "record"

\* no allocation of the call failed
NoAllocFailure == p_opener_data # "NULL" /\ \A w \in Workers : thr[w].alloc

FreshGame(t) ==
    RunGame(StartGame(t, p_master_dictionary, master_count, p_master_dictionary, opening_word),
            p_master_dictionary[t].word, ALL_STRATEGIES[config], g_isHardMode, master_count)

\* a game's first iteration starts on a copy of the master pool with zeroed constraints,
\* and a finished game's outcome is that of the target's game played alone
StartsFreshEndsAlike(w) ==
    /\ (InGame(w) /\ thr[w].g.log = <<>>) =>
          /\ thr[w].g.p_thread_data = p_master_dictionary
          /\ thr[w].g.min_required_counts = ZeroCounts
    /\ GameOver(w) =>
          /\ thr[w].g.won = FreshGame(thr[w].g.t).won
          /\ thr[w].g.guesses_taken = FreshGame(thr[w].g.t).guesses_taken

\* a step writes neither the master pool nor the private state of two threads
NoCrossWorkerWrite ==
    /\ p_master_dictionary' = p_master_dictionary
    /\ \A w, v \in Workers : (thr'[w] # thr[w] /\ thr'[v] # thr[v]) => w = v

\* C2: during the parallel phase no thread writes the master pool or another thread's
\* pool copy, constraint state or views; every game starts from a fresh copy of the
\* master pool with zeroed constraint state; so the win/loss result and the number of
\* guesses for a target are the same whichever thread plays it and whenever.
C2_GamesIndependent ==
    /\ [](\A w \in Workers : StartsFreshEndsAlike(w))
    /\ [][NoCrossWorkerWrite]_vars

\* the second thread has finished a game that took several guesses, after the game of
\* an earlier target left eliminated entries in that thread's buffer
C2_Witness ==
    /\ GameOver(2) /\ thr[2].g.guesses_taken > 2
    /\ \E t \in 1..master_count : games[t].worker = 2 /\ games[t].count = 1

\* C3: every simulated game ends after at most 6 guesses have been compared with the
\* target, with one outcome: a win with guesses_taken = k (1 <= k <= 6) when the k-th
\* compared guess equals the target, a loss otherwise; no 7th guess is compared.
C3_AtMostSixGuesses ==
    \A w \in Workers :
        /\ Len(thr[w].g.log) <= MAX_GUESSES
        /\ GameOver(w) =>
              LET g == thr[w].g
                  target_word == p_master_dictionary[g.t].word
              IN  /\ Len(g.log) >= 1
                  /\ \A k \in 1..(Len(g.log) - 1) : g.log[k] # target_word
                  /\ g.won <=> (g.log[Len(g.log)] = target_word)
                  /\ g.won => g.guesses_taken = Len(g.log)

\* a lost game in which six guesses were compared with the target
C3_Witness ==
    \E w \in Workers :
        GameOver(w) /\ ~thr[w].g.won /\ Len(thr[w].g.log) = MAX_GUESSES

\* every word eliminated in array before is eliminated in array after
StaysEliminated(before, after) ==
    \A i \in 1..Len(before) :
        before[i].is_eliminated =>
            \E j \in 1..Len(after) : after[j].word = before[i].word /\ after[j].is_eliminated

\* C5: within one game, simulated or interactive, an entry whose is_eliminated flag is
\* true is never set back to false by a later operation of that game (filtering,
\* entropy recomputation, view rebuilding, the hard-mode compaction sort, selection).
C5_EliminatedStays ==
    [][/\ \A w \in Workers :
            (InGame(w) /\ thr'[w].g.t = thr[w].g.t) =>
                StaysEliminated(thr[w].g.p_thread_data, thr'[w].g.p_thread_data)
       /\ phase = "interactive" =>
            StaysEliminated(ia.p_possibleAnswers_data, ia'.p_possibleAnswers_data)]_vars

\* a normal-mode game before its fourth guess: an entry eliminated by an earlier guess
\* agrees with the feedback of a later one and is still eliminated
C5_Witness ==
    \E w \in Workers :
        /\ InGame(w) /\ ~g_isHardMode /\ Len(thr[w].g.log) >= 3
        /\ \E i \in 1..master_count :
              /\ thr[w].g.p_thread_data[i].is_eliminated
              /\ \E k \in 2..Len(thr[w].g.log) :
                    get_feedback_pattern(thr[w].g.log[k], thr[w].g.p_thread_data[i].word)
                        = get_feedback_pattern(thr[w].g.log[k], p_master_dictionary[thr[w].g.t].word)

\* every candidate's entropy is the entropy of its word over the non-eliminated entries
EntropyFresh(pool, count) ==
    \A i \in 1..count :
        pool[i].entropy = calculate_entropy_internal(pool[i].word, pool, ValidPointers(pool, count),
                                                     Len(ValidPointers(pool, count)))

\* C8 as stated: in every non-winning turn of a simulated game, in hard and in normal
\* mode, the entropy of the candidates is recomputed against the post-filter set of
\* non-eliminated entries before the next guess is selected.
C8_EntropyRecomputedEveryTurn ==
    \A w \in Workers :
        (InGame(w) /\ Len(thr[w].g.log) >= 1) =>
            EntropyFresh(thr[w].g.p_thread_data, thr[w].g.current_count)

\* number of positions where guess holds letter c and the pattern shows G or Y
ConfirmedCount(guess, pattern, c) ==
    Cardinality({i \in Positions : guess[i] = c /\ pattern[i] \in {"G", "Y"}})

\* the step of thread w that compared a guess of its game with the target, without a win
NonWinningTurn(w) ==
    /\ InGame(w) /\ thr'[w].g.t = thr[w].g.t
    /\ Len(thr'[w].g.log) = Len(thr[w].g.log) + 1 /\ ~thr'[w].g.won

\* C13: update_min_required_counts sets, for every letter L, min_required_counts[L] to
\* the maximum of its previous value and the number of positions i with guess[i] = L
\* and pattern[i] in {G, Y}; over the updates of one game, simulated or interactive,
\* no letter's count ever decreases.
C13_MinCountsOnlyGrow ==
    [][/\ \A w \in Workers :
            /\ (InGame(w) /\ thr'[w].g.t = thr[w].g.t) =>
                  \A c \in Letters :
                      thr'[w].g.min_required_counts[c] >= thr[w].g.min_required_counts[c]
            /\ NonWinningTurn(w) =>
                  \A c \in Letters :
                      thr'[w].g.min_required_counts[c] =
                          Max(thr[w].g.min_required_counts[c],
                              ConfirmedCount(thr[w].g.current_guess,
                                  get_feedback_pattern(thr[w].g.current_guess,
                                                       p_master_dictionary[thr[w].g.t].word), c))
       /\ phase = "interactive" =>
            \A c \in Letters : ia'.min_required_counts[c] >= ia.min_required_counts[c]]_vars

\* a game whose last update found fewer confirmed copies of a letter than an earlier
\* one had: the earlier count is the one kept
C13_Witness ==
    \E w \in Workers :
        /\ InGame(w) /\ Len(thr[w].g.log) >= 2
        /\ \E c \in Letters :
              thr[w].g.min_required_counts[c] >
                  ConfirmedCount(thr[w].g.log[Len(thr[w].g.log)],
                      get_feedback_pattern(thr[w].g.log[Len(thr[w].g.log)],
                                           p_master_dictionary[thr[w].g.t].word), c)

\* the word's feedback against every guess of the log is the target's
ConsistentWith(word, log, target_word) ==
    \A j \in 1..Len(log) :
        get_feedback_pattern(log[j], word) = get_feedback_pattern(log[j], target_word)

\* the array's first current_count entries are exactly its non-eliminated entries, and
\* they are the words of the master pool that agree with all feedback received
PoolIsTheAnswerSet(g) ==
    /\ \A i \in 1..master_count : (~g.p_thread_data[i].is_eliminated) <=> (i <= g.current_count)
    /\ {g.p_thread_data[i].word : i \in 1..g.current_count} =
          {p_master_dictionary[i].word : i \in
              {k \in 1..master_count :
                  ConsistentWith(p_master_dictionary[k].word, g.log,
                                 p_master_dictionary[g.t].word)}}

\* C14: in a hard-mode simulated game the candidate pool and the answer set handed to
\* guess selection are the same set, exactly the non-eliminated entries; every guess
\* after the opener is a word whose feedback against each earlier guess of the game
\* equals the feedback received.
C14_HardModeGuessesConsistent ==
    \A w \in Workers :
        /\ (g_isHardMode /\ InGame(w) /\ Len(thr[w].g.log) >= 1) =>
              /\ PoolIsTheAnswerSet(thr[w].g)
              /\ \E i \in 1..thr[w].g.current_count :
                    thr[w].g.p_thread_data[i].word = thr[w].g.current_guess
              /\ ConsistentWith(thr[w].g.current_guess, thr[w].g.log,
                                p_master_dictionary[thr[w].g.t].word)
        /\ (g_isHardMode /\ (InGame(w) \/ GameOver(w))) =>
              \A k \in 2..Len(thr[w].g.log) :
                  ConsistentWith(thr[w].g.log[k], SubSeq(thr[w].g.log, 1, k - 1),
                                 p_master_dictionary[thr[w].g.t].word)

\* a hard-mode game with two guesses compared, entries eliminated and more than one
\* candidate left for the third guess
C14_Witness ==
    \E w \in Workers :
        /\ g_isHardMode /\ InGame(w) /\ Len(thr[w].g.log) >= 2
        /\ thr[w].g.current_count >= 2 /\ thr[w].g.current_count < master_count
        /\ thr[w].g.current_guess # p_master_dictionary[thr[w].g.t].word

\* thread w found one of its two buffers NULL
AllocFailed(w) == phase \in {"parallel", "returned"} /\ thr[w].pc # "start" /\ ~thr[w].alloc

\* thread w played no game and has nothing to merge
PlayedNothing(w) ==
    /\ thr[w].g = NoGame
    /\ thr[w].local_distribution = ZeroDistribution
    /\ \A t \in 1..master_count : games[t].worker # w

\* the returned stats hold the game of every target, the histogram merged
AllResultsReported ==
    /\ \A t \in 1..master_count : games[t].count = 1
    /\ stats.wins + stats.losses = master_count
    /\ SumSeq([k \in 1..MAX_GUESSES |-> stats.guess_distribution[k]]) = stats.wins

\* C18 as stated: a worker whose private allocations fail at the start of the parallel
\* phase plays zero games and adds nothing to the aggregate, and the run still ends
\* with the remaining workers' results reported.
C18_FailedWorkerHarmless ==
    /\ \A w \in Workers : AllocFailed(w) => PlayedNothing(w)
    /\ (phase = "returned" /\ TeamMismatch) => AllResultsReported

\* the first valid_count entries of a rank view are exactly the non-eliminated entries
\* of the array
RankViewHoldsAnswers(pool, p_rank_sorted, valid_count) ==
    /\ valid_count <= Len(p_rank_sorted)
    /\ {p_rank_sorted[i] : i \in 1..valid_count} =
          {k \in 1..Len(pool) : ~pool[k].is_eliminated}

\* the guess game record g holds was picked by get_smart_hybrid_guess after a
\* comparison: a Smart configuration, and not the forced second opener
SmartPicked(g) ==
    /\ Len(g.log) >= 1 /\ ~g.won
    /\ ALL_STRATEGIES[config].base_strategy_index = -1
    /\ ~(~g_isHardMode /\ Len(g.log) = 1
         /\ ALL_STRATEGIES[config].second_opener_override_word # NoWord)

\* the count and valid_count handed over by the simulation for that pick
SmartPickCount(g) == IF g_isHardMode THEN g.current_count ELSE master_count
SmartPickValidCount(g) ==
    IF g_isHardMode THEN g.current_count
    ELSE Cardinality({k \in 1..master_count : ~g.p_thread_data[k].is_eliminated})

\* C29: at every call of get_smart_hybrid_guess made by the simulation (for the opener
\* and after each comparison) or by the interactive loop, the first valid_count
\* entries of the rank view passed in are exactly the non-eliminated entries of the
\* pool.
C29_RankViewStartsWithAnswers ==
    /\ (phase = "parallel" /\ ALL_STRATEGIES[config].base_strategy_index = -1
           /\ ALL_STRATEGIES[config].opener_override_word = NoWord) =>
          RankViewHoldsAnswers(p_master_dictionary,
              duplicate_dictionary_pointers(
                  calculate_entropy_on_dictionary(p_master_dictionary, master_count),
                  master_count, "rank_desc"),
              master_count)
    /\ \A w \in Workers :
          (phase = "parallel" /\ thr[w].pc \in {"game", "record"} /\ SmartPicked(thr[w].g)) =>
              RankViewHoldsAnswers(thr[w].g.p_thread_data,
                  duplicate_dictionary_pointers(thr[w].g.p_thread_data,
                                                SmartPickCount(thr[w].g), "rank_desc"),
                  SmartPickValidCount(thr[w].g))
    /\ (phase = "interactive" /\ ia.pc = "turn") =>
          RankViewHoldsAnswers(ia.p_possibleAnswers_data, ia.p_rank_sorted,
              Len(ValidPointers(ia.p_possibleAnswers_data, ia.total_dictionary_size)))

\* a normal-mode pick over an array in which an eliminated entry precedes a valid one
\* and more than one entry is valid
C29_Witness ==
    \E w \in Workers :
        /\ InGame(w) /\ ~g_isHardMode /\ SmartPicked(thr[w].g)
        /\ SmartPickValidCount(thr[w].g) >= 2
        /\ \E j, k \in 1..master_count :
              /\ j < k /\ thr[w].g.p_thread_data[j].is_eliminated
              /\ ~thr[w].g.p_thread_data[k].is_eliminated

\* C30 as stated: when run_hybrid_strategy returns after the parallel phase, for any
\* interleaving of workers, guess_distribution[1..6] sums to wins,
\* guess_distribution[0] is 0, and total_guesses equals the sum over k of
\* k * guess_distribution[k].
C30_HistogramMatchesTotals ==
    (phase = "returned" /\ p_opener_data # "NULL") =>
        /\ SumSeq([k \in 1..MAX_GUESSES |-> stats.guess_distribution[k]]) = stats.wins
        /\ stats.guess_distribution[0] = 0
        /\ stats.total_guesses =
              SumSeq([k \in 1..MAX_GUESSES |-> k * stats.guess_distribution[k]])

----------------------------------------------------------------------------
(* Harness of get_feedback_pattern: every guess and answer over the first     *)
(* FbLetters letters, and the four words of the documented examples           *)

FbLetters == 2

SPEED == <<"S", "P", "E", "E", "D">>
ABIDE == <<"A", "B", "I", "D", "E">>
CRANE == <<"C", "R", "A", "N", "E">>
TRACE == <<"T", "R", "A", "C", "E">>

FbWords == [Positions -> {Alphabet[i] : i \in 1..FbLetters}] \cup {SPEED, ABIDE, CRANE, TRACE}

InitFeedback ==
    /\ MainIdle /\ fl = FlIdle /\ sel = SelIdle /\ call = CallIdle
    /\ \E guess \in FbWords, answer \in FbWords :
          fb = [FbIdle EXCEPT !.guess = guess, !.answer = answer]

CallGetFeedbackPattern ==
    /\ ~fb.called
    /\ fb' = [fb EXCEPT !.called = TRUE,
                        !.result_pattern = get_feedback_pattern(fb.guess, fb.answer)]
    /\ UNCHANGED <<fl, sel, call, mainVars>>

CallComputeFeedbackIndex ==
    /\ ~fb.indexed
    /\ fb' = [fb EXCEPT !.indexed = TRUE, !.index = compute_feedback_index(fb.guess, fb.answer)]
    /\ UNCHANGED <<fl, sel, call, mainVars>>

CallLookaheadFeedbackIndex ==
    /\ ~fb.lookahead_indexed
    /\ fb' = [fb EXCEPT !.lookahead_indexed = TRUE, !.lookahead_index = lookahead_feedback_index(fb.guess, fb.answer)]
    /\ UNCHANGED <<fl, sel, call, mainVars>>

NextFeedback ==
    \/ CallGetFeedbackPattern
    \/ CallComputeFeedbackIndex
    \/ CallLookaheadFeedbackIndex

SpecFeedback == InitFeedback /\ [][NextFeedback]_vars

\* C4: get_feedback_pattern marks position i Green exactly when guess[i] = answer[i];
\* for every letter the number of its guess positions marked Green or Yellow is the
\* minimum of its occurrences in the guess and in the answer; among the non-Green
\* occurrences of a letter the Yellows are the leftmost; SPEED against ABIDE gives
\* BBYBY and CRANE against TRACE gives YGGBG.
C4_FeedbackRule ==
    fb.called =>
        /\ \A i \in Positions : (fb.result_pattern[i] = "G") <=> (fb.guess[i] = fb.answer[i])
        /\ \A c \in Letters :
              Cardinality({i \in Positions : fb.guess[i] = c /\ fb.result_pattern[i] \in {"G", "Y"}})
                  = Min(Occurrences(fb.guess, c), Occurrences(fb.answer, c))
        /\ \A i, j \in Positions :
              (i < j /\ fb.guess[i] = fb.guess[j] /\ fb.result_pattern[j] = "Y"
                     /\ fb.result_pattern[i] # "G") => fb.result_pattern[i] = "Y"
        /\ \A i \in Positions : fb.result_pattern[i] \in {"B", "Y", "G"}
        /\ (fb.guess = SPEED /\ fb.answer = ABIDE) => fb.result_pattern = <<"B", "B", "Y", "B", "Y">>
        /\ (fb.guess = CRANE /\ fb.answer = TRACE) => fb.result_pattern = <<"Y", "G", "G", "B", "G">>

\* the duplicate-letter example: SPEED against ABIDE, one Yellow E and one Black E
C4_Witness ==
    /\ fb.called /\ fb.guess = SPEED /\ fb.answer = ABIDE
    /\ fb.result_pattern = <<"B", "B", "Y", "B", "Y">>

\* the digit of a colour: Black 0, Yellow 1, Green 2
ColourDigit(colour) == CASE colour = "G" -> 2 [] colour = "Y" -> 1 [] OTHER -> 0

\* the sum over positions i (from 0) of d_i * 3^i for a pattern
PatternNumber(pattern) ==
    SumSeq(Array([i \in Positions |-> ColourDigit(pattern[i]) * 3 ^ (i - 1)]))

\* C12: for every guess/answer pair compute_feedback_index and lookahead_feedback_index
\* return the same integer, which lies in 0..242 and equals the sum over positions i of
\* d_i * 3^i, d_i being the colour (Black 0, Yellow 1, Green 2) get_feedback_pattern
\* gives position i, position 0 least significant.
C12_IndexersAgreeWithPattern ==
    (fb.called /\ fb.indexed /\ fb.lookahead_indexed) =>
        /\ fb.index = fb.lookahead_index
        /\ fb.index \in 0..242
        /\ fb.index = PatternNumber(fb.result_pattern)

\* SPEED against ABIDE, BBYBY: both encoders give 1 * 9 + 1 * 81
C12_Witness ==
    /\ fb.called /\ fb.indexed /\ fb.lookahead_indexed
    /\ fb.guess = SPEED /\ fb.answer = ABIDE
    /\ fb.index = 90 /\ fb.lookahead_index = 90

----------------------------------------------------------------------------
(* Harness of filter_dictionary_by_constraints: an array of FlSize entries    *)
(* with any flags, any count, a guess and a pattern                           *)

FlSize == 4

FlPools ==
    {[i \in 1..FlSize |-> [MixedWords[i] EXCEPT !.is_eliminated = (i \in gone), !.entropy = 100 * i]] :
        gone \in SUBSET (1..FlSize)}

FlGuesses == {MixedWords[i].word : i \in 1..FlSize} \cup {SALET}

FlPatterns(guess) ==
    {get_feedback_pattern(guess, MixedWords[i].word) : i \in 1..FlSize}
        \cup {<<"B", "B", "B", "B", "B">>}

InitFilter ==
    /\ MainIdle /\ fb = FbIdle /\ sel = SelIdle /\ call = CallIdle
    /\ \E pool \in FlPools : fl = [FlIdle EXCEPT !.before = pool]

CallFilterDictionary ==
    /\ ~fl.called
    /\ \E n \in 0..FlSize : \E guess \in FlGuesses : \E result_pattern \in FlPatterns(guess) :
          fl' = [fl EXCEPT !.called = TRUE, !.n = n, !.guess = guess,
                           !.result_pattern = result_pattern,
                           !.after = filter_dictionary_by_constraints(fl.before, n, guess, result_pattern)]
    /\ UNCHANGED <<fb, sel, call, mainVars>>

NextFilter == CallFilterDictionary

SpecFilter == InitFilter /\ [][NextFilter]_vars

\* C6: after filter_dictionary_by_constraints(pool, n, guess, pattern) an entry among
\* the first n is non-eliminated exactly when it was non-eliminated before the call and
\* get_feedback_pattern(guess, entry.word) equals pattern; no field other than
\* is_eliminated is changed and no entry at an index >= n is changed.
C6_FilterContract ==
    fl.called =>
        /\ Len(fl.after) = Len(fl.before)
        /\ \A i \in 1..Len(fl.before) :
              IF i <= fl.n
              THEN /\ (~fl.after[i].is_eliminated) <=>
                          (/\ ~fl.before[i].is_eliminated
                           /\ get_feedback_pattern(fl.guess, fl.before[i].word) = fl.result_pattern)
                   /\ [fl.after[i] EXCEPT !.is_eliminated = FALSE]
                          = [fl.before[i] EXCEPT !.is_eliminated = FALSE]
              ELSE fl.after[i] = fl.before[i]

\* a call that eliminates an entry among the first n, keeps another, and leaves a
\* non-matching, non-eliminated entry beyond n alone
C6_Witness ==
    /\ fl.called /\ fl.n > 0 /\ fl.n < FlSize
    /\ \E i \in 1..fl.n : ~fl.before[i].is_eliminated /\ fl.after[i].is_eliminated
    /\ \E i \in 1..fl.n : ~fl.after[i].is_eliminated
    /\ \E j \in (fl.n + 1)..FlSize :
          /\ ~fl.before[j].is_eliminated /\ ~fl.after[j].is_eliminated
          /\ get_feedback_pattern(fl.guess, fl.before[j].word) # fl.result_pattern

----------------------------------------------------------------------------
(* Harness of get_smart_hybrid_guess: the arguments its callers build from a  *)
(* dictionary (a prefix of SelWords), a mode and at most one filtered guess,  *)
(* then every configuration and turn                                          *)

SelPoolSize == 25
SelGuesses == 3

\* words with a repeated letter, then words without: first two that split the
\* words before them badly, then ordinary ones
SelWords == <<
    Entry(<<"V", "I", "V", "I", "D">>, 25, "N", "N"),
    Entry(<<"F", "U", "Z", "Z", "Y">>, 10, "N", "N"),
    Entry(<<"H", "A", "P", "P", "Y">>, 85, "N", "N"),
    Entry(<<"S", "P", "E", "E", "D">>, 75, "S", "P"),
    Entry(<<"Q", "U", "E", "E", "N">>, 55, "S", "N"),
    Entry(<<"E", "M", "B", "E", "R">>, 22, "S", "N"),
    Entry(<<"K", "N", "O", "W", "N">>, 66, "N", "T"),
    Entry(<<"G", "E", "E", "S", "E">>, 18, "P", "N"),
    Entry(<<"L", "L", "A", "M", "A">>, 12, "S", "N"),
    Entry(<<"P", "I", "Z", "Z", "A">>, 58, "S", "N"),
    Entry(<<"R", "O", "B", "O", "T">>, 48, "S", "N"),
    Entry(<<"T", "E", "E", "T", "H">>, 52, "P", "N"),
    Entry(<<"C", "H", "U", "N", "K">>, 33, "S", "N"),
    Entry(<<"J", "A", "C", "K", "S">>, 28, "P", "S"),
    Entry(<<"S", "L", "A", "T", "E">>, 80, "S", "P"),
    Entry(<<"C", "R", "A", "N", "E">>, 50, "S", "P"),
    Entry(<<"T", "R", "A", "C", "E">>, 70, "S", "P"),
    Entry(<<"C", "A", "R", "E", "S">>, 45, "P", "S"),
    Entry(<<"A", "B", "I", "D", "E">>, 30, "N", "P"),
    Entry(<<"A", "U", "D", "I", "O">>, 60, "S", "N"),
    Entry(<<"J", "U", "M", "P", "S">>, 20, "P", "S"),
    Entry(<<"B", "A", "K", "E", "D">>, 40, "N", "T"),
    Entry(<<"T", "H", "E", "I", "R">>, 95, "R", "N"),
    Entry(<<"M", "O", "N", "E", "Y">>, 90, "S", "N"),
    Entry(<<"L", "I", "G", "H", "T">>, 88, "S", "P"),
    Entry(<<"W", "O", "R", "L", "D">>, 92, "S", "N"),
    Entry(<<"G", "L", "O", "B", "E">>, 35, "S", "N") >>

\* the number of leading words of SelWords with a repeated letter
SelRepeated ==
    Cardinality({i \in 1..Len(SelWords) :
        \A j \in 1..i : SelWords[j].contains_duplicate_letters})

SelSizes == {0, SelRepeated, SelRepeated + 2, SelPoolSize}

\* a dictionary of more than 20 words that all repeat a letter; the word of the
\* highest frequency rank is not the word of the highest entropy
SelRepeatedSize == 21

SelRepeatedWords ==
    SubSeq(SelWords, 1, SelRepeated) \o <<
        Entry(<<"A", "P", "P", "L", "E">>, 72, "S", "N"),
        Entry(<<"B", "O", "O", "K", "S">>, 68, "P", "S"),
        Entry(<<"C", "H", "E", "E", "R">>, 44, "S", "P"),
        Entry(<<"D", "A", "D", "D", "Y">>, 38, "S", "N"),
        Entry(<<"E", "E", "R", "I", "E">>, 15, "N", "N"),
        Entry(<<"F", "L", "O", "O", "R">>, 62, "S", "P"),
        Entry(<<"G", "R", "A", "S", "S">>, 57, "S", "P"),
        Entry(<<"H", "E", "L", "L", "O">>, 99, "N", "N"),
        Entry(<<"J", "E", "L", "L", "Y">>, 27, "S", "N"),
        Entry(<<"K", "A", "Y", "A", "K">>, 14, "S", "P") >>

SelTurns == 1..(MAX_GUESSES + 1)

\* what main() hands over at the start: nothing eliminated, both views valid-first
SelFresh(pool, n) ==
    [SelIdle EXCEPT !.pool = pool, !.count = n, !.valid_count = n,
        !.p_entropy_sorted = duplicate_dictionary_pointers(pool, n, "entropy_desc"),
        !.p_rank_sorted = duplicate_dictionary_pointers(pool, n, "rank_desc")]

\* what a normal-mode caller hands over after a guess: all n entries rescored
SelNormal(pool, n, min_required_counts, validCount) ==
    [SelIdle EXCEPT !.pool = pool, !.count = n, !.valid_count = validCount,
        !.min_required_counts = min_required_counts,
        !.p_entropy_sorted = duplicate_dictionary_pointers(pool, n, "entropy_no_filter_desc"),
        !.p_rank_sorted = duplicate_dictionary_pointers(pool, n, "rank_desc")]

\* what a hard-mode caller hands over after a guess: the compacted valid entries
SelHard(pool, new_count, min_required_counts) ==
    [SelIdle EXCEPT !.pool = pool, !.count = new_count, !.valid_count = new_count,
        !.min_required_counts = min_required_counts,
        !.p_entropy_sorted = duplicate_dictionary_pointers(pool, new_count, "entropy_desc"),
        !.p_rank_sorted = duplicate_dictionary_pointers(pool, new_count, "rank_desc")]

SelAfterFilterNormal(filtered, n, min_required_counts, ppValid) ==
    SelNormal(calculate_entropy_for_candidates(filtered, n, ppValid, Len(ppValid)),
              n, min_required_counts, Len(ppValid))

\* recompute: the interactive loop recomputes the entropy, the simulation does not
SelAfterFilterHard(sorted, new_count, min_required_counts, recompute) ==
    SelHard(IF recompute THEN calculate_entropy_on_dictionary(sorted, new_count) ELSE sorted,
            new_count, min_required_counts)

SelCompacted(sorted, n, min_required_counts, recompute) ==
    SelAfterFilterHard(sorted, NewCount(sorted, n), min_required_counts, recompute)

SelAfterFilter(filtered, n, min_required_counts, isHardMode, recompute) ==
    IF isHardMode
    THEN SelCompacted(qsort_entries(filtered, n, "eliminated_then_alpha"), n,
                      min_required_counts, recompute)
    ELSE SelAfterFilterNormal(filtered, n, min_required_counts, ValidPointers(filtered, n))

SelAfterGuess(pool, n, guess, result_pattern, isHardMode, recompute) ==
    SelAfterFilter(filter_dictionary_by_constraints(pool, n, guess, result_pattern), n,
                   update_min_required_counts(guess, result_pattern, ZeroCounts),
                   isHardMode, recompute)

SelScenario(pool, n, prev, t, isHardMode, recompute) ==
    IF prev = 0 THEN SelFresh(pool, n)
    ELSE SelAfterGuess(pool, n, pool[prev].word,
                       get_feedback_pattern(pool[prev].word, pool[t].word), isHardMode, recompute)

InitSelect ==
    /\ MainIdle /\ fb = FbIdle /\ fl = FlIdle /\ call = CallIdle
    /\ \/ \E n \in SelSizes :
             \/ n = 0 /\ sel = SelIdle
             \/ /\ n > 0
                /\ \E pool \in {load_dictionary(SelWords, n)} :
                   \E prev \in 0..SelGuesses, t \in 1..n, isHardMode \in BOOLEAN, recompute \in BOOLEAN :
                      /\ prev # t
                      /\ sel = SelScenario(pool, n, prev, t, isHardMode, recompute)
       \/ sel = SelFresh(load_dictionary(SelRepeatedWords, SelRepeatedSize), SelRepeatedSize)

\* the call, with what the main loop observed when no early stage returned
SelCalled(a, c, turn, early) ==
    [a EXCEPT !.called = TRUE, !.cfg = c, !.turn = turn, !.early = early,
        !.skipped = IF a.count = 0 \/ early # NULL THEN {}
                    ELSE MainLoopResult(a.pool, a.p_entropy_sorted, a.p_rank_sorted, a.count,
                             ALL_STRATEGIES[c], a.min_required_counts, a.valid_count, turn).skipped,
        !.bonused = IF a.count = 0 \/ early # NULL THEN {}
                    ELSE MainLoopResult(a.pool, a.p_entropy_sorted, a.p_rank_sorted, a.count,
                             ALL_STRATEGIES[c], a.min_required_counts, a.valid_count, turn).bonused,
        !.result = get_smart_hybrid_guess(a.pool, a.p_entropy_sorted, a.p_rank_sorted, a.count,
                       ALL_STRATEGIES[c], a.min_required_counts, a.valid_count, turn)]

CallGetSmartHybridGuess ==
    /\ ~sel.called
    /\ \E c \in 1..Len(ALL_STRATEGIES), turn \in SelTurns :
          sel' = SelCalled(sel, c, turn,
                     IF sel.count = 0 THEN NULL
                     ELSE EarlyStagePick(sel.pool, sel.p_entropy_sorted, sel.p_rank_sorted, sel.count,
                              ALL_STRATEGIES[c], sel.min_required_counts, sel.valid_count, turn))
    /\ UNCHANGED <<fb, fl, call, mainVars>>

NextSelect == CallGetSmartHybridGuess

SpecSelect == InitSelect /\ [][NextSelect]_vars

\* the pointers of the first count elements of a view
ViewHead(view, count) == {view[i] : i \in 1..count}

\* the positions of the entropy view whose candidate passes the filters of the main loop
SelPassing(a) ==
    {i \in 1..a.count :
        MainLoopPass(a.pool[a.p_entropy_sorted[i]], ALL_STRATEGIES[a.cfg],
                     a.min_required_counts, a.valid_count, a.turn)}

\* C7: get_smart_hybrid_guess returns NULL exactly when count = 0; for count > 0 and
\* every configuration, constraint state, valid_count and turn it returns one of the
\* first count elements of the entropy view or of the rank view it was given.
C7_ReturnsViewEntry ==
    sel.called =>
        /\ (sel.result = NULL) <=> (sel.count = 0)
        /\ sel.count > 0 =>
              sel.result \in ViewHead(sel.p_entropy_sorted, sel.count)
                                \cup ViewHead(sel.p_rank_sorted, sel.count)

\* a call where no early stage picks and the main loop's filters skip every candidate,
\* so the returned entry is the loop's fallback
C7_Witness ==
    /\ sel.called /\ sel.count > 0 /\ sel.early = NULL
    /\ sel.skipped = ViewHead(sel.p_entropy_sorted, sel.count)
    /\ sel.result = sel.p_entropy_sorted[1]

\* the entry the main loop leaves in best_final_candidate, its fallback applied
SelMainLoopPick(a) ==
    FallbackCandidate(MainLoopResult(a.pool, a.p_entropy_sorted, a.p_rank_sorted, a.count,
                          ALL_STRATEGIES[a.cfg], a.min_required_counts, a.valid_count,
                          a.turn).best_final_candidate,
                      a.p_entropy_sorted)

\* the call reached the main loop, where no candidate passed the filters
SelNonePasses(a) ==
    a.called /\ a.count > 0 /\ a.early = NULL /\ SelPassing(a) = {}

\* C11 as stated: if no candidate passes the active filters in the main loop and no
\* earlier stage has returned, the function returns the first element of the entropy
\* view, for every configuration.
C11_FallbackIsEntropyHead ==
    SelNonePasses(sel) => sel.result = sel.p_entropy_sorted[1]

\* the positions of the rank view whose entry passes the filters of the tie-breaker
SelRankPassing(a) ==
    {i \in 1..a.count :
        RankLoopPass(a.pool[a.p_rank_sorted[i]], ALL_STRATEGIES[a.cfg],
                     a.min_required_counts, a.valid_count, a.turn)}

\* the call reached the main loop with a tolerance configured, outside panic mode
SelTieBreakActive(a) ==
    /\ a.called /\ a.count > 0 /\ a.early = NULL
    /\ ALL_STRATEGIES[a.cfg].rank_priority_tolerance > 0 /\ a.valid_count > 20

\* the main-loop pick is less than the tolerance ahead, in entropy, of rank entry r
SelWithinTolerance(a, r) ==
    a.pool[SelMainLoopPick(a)].entropy - a.pool[r].entropy
        < ALL_STRATEGIES[a.cfg].rank_priority_tolerance

\* C19 as stated: with rank_priority_tolerance > 0 and valid_count > 20 the main-loop
\* pick is replaced by the first filter-passing entry of the rank view exactly when the
\* pick's entropy minus that entry's entropy is below the tolerance, and the entry
\* substituted always passes the active filters; with tolerance = 0 or
\* valid_count <= 20 the main-loop pick is returned unchanged.
C19_RankTieBreak ==
    (sel.called /\ sel.count > 0 /\ sel.early = NULL) =>
        IF SelTieBreakActive(sel)
        THEN /\ SelRankPassing(sel) # {} =>
                   sel.result =
                       IF SelWithinTolerance(sel, sel.p_rank_sorted[FirstIndex(SelRankPassing(sel))])
                       THEN sel.p_rank_sorted[FirstIndex(SelRankPassing(sel))]
                       ELSE SelMainLoopPick(sel)
             /\ SelRankPassing(sel) = {} => sel.result = SelMainLoopPick(sel)
             /\ sel.result # SelMainLoopPick(sel) =>
                   RankLoopPass(sel.pool[sel.result], ALL_STRATEGIES[sel.cfg],
                                sel.min_required_counts, sel.valid_count, sel.turn)
        ELSE sel.result = SelMainLoopPick(sel)

\* C9 as stated: in the main loop, whenever valid_count <= 20, no candidate is skipped
\* by the linguistic or the risk filter and no candidate's score gets a lookahead bonus,
\* whatever the configuration.
C9_PanicDisablesFilters ==
    (sel.called /\ sel.count > 0 /\ sel.early = NULL /\ sel.valid_count <= 20) =>
        /\ sel.skipped = {}
        /\ sel.bonused = {}

----------------------------------------------------------------------------
(* Harness of compare_dictionary_entries_by_entropy_desc and of the view      *)
(* duplicate_dictionary_pointers sorts with it: an array of CmpSize entries   *)
(* with any flag, entropy, rank, noun type and word of CmpWords               *)

CmpSize == 3

CmpWords == {<<"C", "R", "A", "N", "E">>, <<"S", "P", "E", "E", "D">>}

CmpEntries ==
    {[Entry(w, rank, noun, "P") EXCEPT !.entropy = entropy, !.is_eliminated = gone] :
        w \in CmpWords, rank \in {50, 70}, noun \in {"S", "P"},
        entropy \in {1585, 2000}, gone \in BOOLEAN}

InitCompare ==
    /\ MainIdle /\ fb = FbIdle /\ fl = FlIdle /\ sel = SelIdle
    /\ \E pool \in [1..CmpSize -> CmpEntries] :
          call = [op |-> "compare", pool |-> Array(pool), compared |-> FALSE, result |-> <<>>,
                  sorted |-> FALSE, count |-> 0, view |-> <<>>]

\* the comparator applied to every pair of entries of the array
CallCompareByEntropyDesc ==
    /\ call.op = "compare" /\ ~call.compared
    /\ call' = [call EXCEPT !.compared = TRUE,
                            !.result = [i \in 1..CmpSize |-> [j \in 1..CmpSize |->
                                compare_dictionary_entries_by_entropy_desc(call.pool[i],
                                                                           call.pool[j])]]]
    /\ UNCHANGED <<fb, fl, sel, mainVars>>

\* a view of the first count entries sorted with the comparator
CallDuplicateDictionaryPointers ==
    /\ call.op = "compare" /\ ~call.sorted
    /\ \E count \in 0..CmpSize :
          call' = [call EXCEPT !.sorted = TRUE, !.count = count,
                               !.view = duplicate_dictionary_pointers(call.pool, count,
                                                                      "entropy_desc")]
    /\ UNCHANGED <<fb, fl, sel, mainVars>>

NextCompare ==
    \/ CallCompareByEntropyDesc
    \/ CallDuplicateDictionaryPointers

SpecCompare == InitCompare /\ [][NextCompare]_vars

\* entry i of the harness array comes strictly before entry j
CmpBefore(i, j) == call.result[i][j] < 0

\* C15: compare_dictionary_entries_by_entropy_desc is a strict weak ordering
\* (irreflexive, asymmetric, transitive) over entries, and in a view sorted with it
\* every non-eliminated entry precedes every eliminated entry while entropy is
\* non-increasing within the non-eliminated entries.
C15_EntropyDescOrdersViews ==
    /\ call.compared =>
          /\ \A i \in 1..CmpSize : ~CmpBefore(i, i)
          /\ \A i, j \in 1..CmpSize : CmpBefore(i, j) => ~CmpBefore(j, i)
          /\ \A i, j, k \in 1..CmpSize : (CmpBefore(i, j) /\ CmpBefore(j, k)) => CmpBefore(i, k)
          /\ \A i, j \in 1..CmpSize : call.result[i][j] = -call.result[j][i]
    /\ call.sorted =>
          /\ Len(call.view) = call.count
          /\ {call.view[a] : a \in 1..call.count} = 1..call.count
          /\ \A a, b \in 1..call.count :
                a < b =>
                    /\ call.pool[call.view[a]].is_eliminated
                           => call.pool[call.view[b]].is_eliminated
                    /\ ~call.pool[call.view[b]].is_eliminated
                           => call.pool[call.view[a]].entropy >= call.pool[call.view[b]].entropy

\* a view of the whole array that had to move entries: an eliminated entry stood first
\* in the array, and two non-eliminated entries of different entropy follow it
C15_Witness ==
    /\ call.op = "compare" /\ call.compared /\ call.sorted /\ call.count = CmpSize
    /\ call.pool[1].is_eliminated
    /\ ~call.pool[2].is_eliminated /\ ~call.pool[3].is_eliminated
    /\ call.pool[2].entropy < call.pool[3].entropy
    /\ call.view = <<3, 2, 1>>

----------------------------------------------------------------------------
(* Harness of calculate_entropy_on_dictionary: an array of EnSize entries     *)
(* with any flags, fresh (entropy 0) or holding entropies of an earlier call, *)
(* and any count                                                              *)

EnSize == 4

EnPools ==
    {[i \in 1..EnSize |-> [MixedWords[i] EXCEPT !.is_eliminated = (i \in gone),
                                                !.entropy = IF stale THEN 500 * i ELSE 0]] :
        gone \in SUBSET (1..EnSize), stale \in BOOLEAN}

InitEntropy ==
    /\ MainIdle /\ fb = FbIdle /\ fl = FlIdle /\ sel = SelIdle
    /\ \E pool \in EnPools :
          call = [op |-> "entropy", before |-> Array(pool), called |-> FALSE, alloc |-> TRUE,
                  dictionaryCount |-> 0, after |-> <<>>]

CallCalculateEntropyOnDictionary ==
    /\ call.op = "entropy" /\ ~call.called
    /\ \E dictionaryCount \in 0..EnSize :
          call' = [call EXCEPT !.called = TRUE, !.dictionaryCount = dictionaryCount,
                               !.after = calculate_entropy_on_dictionary(call.before,
                                                                         dictionaryCount)]
    /\ UNCHANGED <<fb, fl, sel, mainVars>>

\* the call whose malloc of ppValid fails: it returns before the loop
CallCalculateEntropyAllocFails ==
    /\ call.op = "entropy" /\ ~call.called
    /\ \E dictionaryCount \in 1..EnSize :
          /\ Len(ValidPointers(call.before, dictionaryCount)) > 0
          /\ call' = [call EXCEPT !.called = TRUE, !.alloc = FALSE,
                                  !.dictionaryCount = dictionaryCount, !.after = call.before]
    /\ UNCHANGED <<fb, fl, sel, mainVars>>

NextEntropy ==
    \/ CallCalculateEntropyOnDictionary
    \/ CallCalculateEntropyAllocFails

SpecEntropy == InitEntropy /\ [][NextEntropy]_vars

RECURSIVE SumOver(_, _)
SumOver(S, f) ==
    IF S = {} THEN 0
    ELSE LET x == CHOOSE y \in S : TRUE IN f[x] + SumOver(S \ {x}, f)

\* entropy, in thousandths of a bit, of the histogram of the feedback patterns of word
\* against the entries of pool at the indices in answers
HistogramEntropy(word, pool, answers) ==
    LET patterns == {get_feedback_pattern(word, pool[j].word) : j \in answers}
        bucket == [pattern \in patterns |->
                     Cardinality({j \in answers :
                         get_feedback_pattern(word, pool[j].word) = pattern})]
        total == Cardinality(answers)
    IN  IF total <= 1 THEN 0
        ELSE (total * Log2Milli[total]
                - SumOver(patterns, [pattern \in patterns |->
                                        bucket[pattern] * Log2Milli[bucket[pattern]]]))
             \div total

\* C16 as stated: after calculate_entropy_on_dictionary(pool, n), for every pool state,
\* each eliminated entry among the first n has entropy 0 and each non-eliminated one has
\* the entropy of its feedback-pattern histogram over all non-eliminated entries (itself
\* included); no field other than entropy is modified.
C16_EntropyContract ==
    (call.op = "entropy" /\ call.called) =>
        /\ Len(call.after) = Len(call.before)
        /\ \A i \in 1..EnSize :
              [call.after[i] EXCEPT !.entropy = 0] = [call.before[i] EXCEPT !.entropy = 0]
        /\ \A i \in 1..call.dictionaryCount :
              call.after[i].entropy =
                  IF call.before[i].is_eliminated THEN 0
                  ELSE HistogramEntropy(call.before[i].word, call.before,
                           {j \in 1..call.dictionaryCount : ~call.before[j].is_eliminated})

----------------------------------------------------------------------------
(* The tournament: run_monte_carlo_simulation (monte_carlo.cpp). A double is  *)
(* an exact fraction [n, d] with d > 0, or NaN, written 0/0; a run of         *)
(* run_hybrid_strategy is taken by its outcome: the wins and guesses it       *)
(* counted over TourMaster targets, or the early return of a failed malloc    *)

TourMaster == 1

Double(n, d) == [n |-> n, d |-> d]

NaN == Double(0, 0)

\* a < b, a > b and a == b on doubles: all false when an operand is NaN
DoubleLess(a, b) == a # NaN /\ b # NaN /\ a.n * b.d < b.n * a.d
DoubleEqual(a, b) == a # NaN /\ b # NaN /\ a.n * b.d = b.n * a.d

active_roster == <<0, 9, 5, 2>>
roster_size == Len(active_roster)

\* phase 3 of run_hybrid_strategy over targets > 0 words: the averages of the
\* counted games
FinalizeStats(wins, total_guesses, targets) ==
    [wins |-> wins, total_guesses |-> total_guesses,
     average_guesses |-> IF wins > 0 THEN Double(total_guesses, wins) ELSE Double(0, 1),
     win_percent |-> Double(wins * 100, targets)]

\* what a SimStats field never assigned may hold
Indeterminate == {NaN, Double(0, 1), Double(1000, 1)}

\* the stats returned when the malloc of the opener copy fails: the counters zeroed,
\* average_guesses and win_percent never assigned
UnfinishedStats(average_guesses, win_percent) ==
    [wins |-> 0, total_guesses |-> 0,
     average_guesses |-> average_guesses, win_percent |-> win_percent]

\* the winner logic of one row: highest win % first, lowest average second
WinnerLogic(c, row, i) ==
    IF DoubleLess(c.best_win, row.win_percent)
    THEN [c EXCEPT !.best_win = row.win_percent, !.best_idx = i,
                   !.best_avg = row.average_guesses]
    ELSE IF DoubleEqual(row.win_percent, c.best_win)
            /\ DoubleLess(row.average_guesses, c.best_avg)
         THEN [c EXCEPT !.best_avg = row.average_guesses, !.best_idx = i]
         ELSE c

InitTournament ==
    /\ MainIdle /\ fb = FbIdle /\ fl = FlIdle /\ sel = SelIdle
    /\ call = [op |-> "tournament", pc |-> "run", results |-> <<>>, i |-> 0,
               best_idx |-> -1, best_avg |-> Double(100, 1), best_win |-> Double(0, 1)]

\* one iteration of the simulation loop: results[i] = run_hybrid_strategy(...)
RunStrategy ==
    /\ call.op = "tournament" /\ call.pc = "run" /\ Len(call.results) < roster_size
    /\ \E wins \in 0..TourMaster : \E total_guesses \in wins..(wins * MAX_GUESSES) :
          call' = [call EXCEPT !.results =
                      Append(@, FinalizeStats(wins, total_guesses, TourMaster))]
    /\ UNCHANGED <<fb, fl, sel, mainVars>>

\* the same iteration when the run returns early on a failed malloc
RunStrategyAllocFails ==
    /\ call.op = "tournament" /\ call.pc = "run" /\ Len(call.results) < roster_size
    /\ \E average_guesses \in Indeterminate : \E win_percent \in Indeterminate :
          call' = [call EXCEPT !.results =
                      Append(@, UnfinishedStats(average_guesses, win_percent))]
    /\ UNCHANGED <<fb, fl, sel, mainVars>>

\* the simulation loop is over: the report starts
StartReport ==
    /\ call.op = "tournament" /\ call.pc = "run" /\ Len(call.results) = roster_size
    /\ call' = [call EXCEPT !.pc = "report"]
    /\ UNCHANGED <<fb, fl, sel, mainVars>>

\* one iteration of the report loop
ReportRow ==
    /\ call.op = "tournament" /\ call.pc = "report" /\ call.i < roster_size
    /\ call' = [WinnerLogic(call, call.results[call.i + 1], call.i) EXCEPT !.i = call.i + 1]
    /\ UNCHANGED <<fb, fl, sel, mainVars>>

\* the table is printed: the champion, if best_idx >= 0, is named
NameChampion ==
    /\ call.op = "tournament" /\ call.pc = "report" /\ call.i = roster_size
    /\ call' = [call EXCEPT !.pc = "done"]
    /\ UNCHANGED <<fb, fl, sel, mainVars>>

NextTournament ==
    \/ RunStrategy
    \/ RunStrategyAllocFails
    \/ StartReport
    \/ ReportRow
    \/ NameChampion

SpecTournament == InitTournament /\ [][NextTournament]_vars

\* strategy a of the roster won a larger share of the targets than strategy b
WonMore(a, b) == call.results[a].wins > call.results[b].wins

\* strategy a took fewer guesses per win than strategy b (0 for a strategy without a win)
FewerGuessesPerWin(a, b) ==
    DoubleLess(FinalizeStats(call.results[a].wins, call.results[a].total_guesses,
                             TourMaster).average_guesses,
               FinalizeStats(call.results[b].wins, call.results[b].total_guesses,
                             TourMaster).average_guesses)

\* C17 as stated: run_monte_carlo_simulation names as champion a strategy whose win
\* percentage is maximal over the roster and, among the strategies with that maximal
\* win percentage, one whose mean guesses per win is minimal.
C17_ChampionIsBest ==
    (call.op = "tournament" /\ call.pc = "done") =>
        /\ call.best_idx \in 0..(roster_size - 1)
        /\ \A b \in 1..roster_size :
              /\ ~WonMore(b, call.best_idx + 1)
              /\ ~WonMore(call.best_idx + 1, b) => ~FewerGuessesPerWin(b, call.best_idx + 1)

----------------------------------------------------------------------------
(* Harness of calculate_lookahead_bonus: the first LaSize words of a sample   *)
(* dictionary or fewer, their rank view, then any candidate of the array, any *)
(* valid_count up to the view's length and any turn                           *)

LaSize == 6

InitLookahead ==
    /\ MainIdle /\ fb = FbIdle /\ fl = FlIdle /\ sel = SelIdle
    /\ \E d \in 1..Len(Dictionaries), n \in 1..LaSize :
       \E pool \in {load_dictionary(Dictionaries[d], n)} :
          call = [op |-> "lookahead", pool |-> pool,
                  p_rank_sorted |-> duplicate_dictionary_pointers(pool, n, "rank_desc"),
                  called |-> FALSE, candidate |-> NULL, valid_count |-> 0, turn |-> 0,
                  result |-> 0]

CallCalculateLookaheadBonus ==
    /\ call.op = "lookahead" /\ ~call.called
    /\ \E candidate \in 1..Len(call.pool), valid_count \in 0..Len(call.pool), turn \in SelTurns :
          call' = [call EXCEPT !.called = TRUE, !.candidate = candidate,
                               !.valid_count = valid_count, !.turn = turn,
                               !.result = calculate_lookahead_bonus(call.pool[candidate], call.pool,
                                              call.p_rank_sorted, valid_count, turn)]
    /\ UNCHANGED <<fb, fl, sel, mainVars>>

NextLookahead == CallCalculateLookaheadBonus

SpecLookahead == InitLookahead /\ [][NextLookahead]_vars

\* the feedback patterns of the candidate against the first valid_count answers, and
\* the number of answers that give each
LaPattern(j) ==
    get_feedback_pattern(call.pool[call.candidate].word, call.pool[call.p_rank_sorted[j]].word)

LaPatterns == {LaPattern(j) : j \in 1..call.valid_count}

LaBucket == [pattern \in LaPatterns |->
                Cardinality({j \in 1..call.valid_count : LaPattern(j) = pattern})]

LaMaxBucket == CHOOSE m \in {LaBucket[p] : p \in LaPatterns} : \A p \in LaPatterns : LaBucket[p] <= m

\* safety score plus sniper bonus, in thousandths
LaTotalScore ==
    2 * Log10Milli[call.valid_count]
        - Log10Milli[SumOver(LaPatterns, [p \in LaPatterns |-> LaBucket[p] * LaBucket[p]])]
        + (IF call.turn > 1 THEN 40 * Cardinality({p \in LaPatterns : LaBucket[p] = 1}) ELSE 0)

\* C20: for valid_count > 1, calculate_lookahead_bonus subtracts 100 from safety +
\* sniper bonus exactly when the largest feedback bucket over the first valid_count
\* answers exceeds 6 - turn; otherwise it subtracts 5 exactly when valid_count > 4 and
\* the largest bucket exceeds valid_count / 2 + 1 (integer division); the two penalties
\* are never applied together.
C20_LookaheadPenalties ==
    (call.op = "lookahead" /\ call.called /\ call.valid_count > 1) =>
        call.result =
            IF LaMaxBucket > 6 - call.turn THEN LaTotalScore - 100000
            ELSE IF call.valid_count > 4 /\ LaMaxBucket > (call.valid_count \div 2) + 1
                 THEN LaTotalScore - 5000
                 ELSE LaTotalScore

\* the soft clamp alone: five answers, four of them in one bucket, four guesses left
C20_Witness ==
    /\ call.op = "lookahead" /\ call.called
    /\ call.valid_count = 5 /\ call.turn = 2 /\ LaMaxBucket = 4
    /\ call.result = LaTotalScore - 5000

----------------------------------------------------------------------------
(* Harness of one simulated game, the body of the target loop of              *)
(* run_hybrid_strategy: any configuration of GameConfigs, either mode, any    *)
(* target of a whole sample dictionary.  TrapWords is a dictionary whose      *)
(* answers keep three of their number apart until the fifth guess has been    *)
(* compared, and holds one word that tells those three apart.                 *)

TrapWords == <<
    Entry(<<"P", "Q", "I", "N", "G">>, 50, "S", "P"),
    Entry(<<"Q", "V", "I", "N", "G">>, 51, "S", "P"),
    Entry(<<"V", "P", "I", "N", "G">>, 52, "S", "P"),
    Entry(<<"J", "M", "I", "N", "G">>, 53, "S", "P"),
    Entry(<<"M", "W", "I", "N", "G">>, 54, "S", "P"),
    Entry(<<"W", "J", "I", "N", "G">>, 55, "S", "P"),
    Entry(<<"X", "Y", "I", "N", "G">>, 56, "S", "P"),
    Entry(<<"Y", "Z", "I", "N", "G">>, 57, "S", "P"),
    Entry(<<"Z", "X", "I", "N", "G">>, 58, "S", "P"),
    Entry(<<"B", "K", "I", "N", "G">>, 59, "S", "P"),
    Entry(<<"F", "K", "I", "N", "G">>, 60, "S", "P"),
    Entry(<<"H", "K", "I", "N", "G">>, 61, "S", "P"),
    Entry(<<"B", "E", "A", "C", "H">>, 62, "S", "P") >>

\* the fourth dictionary is the words of SelWords that repeat a letter
GamePools == <<TrapWords, HatchWords, MixedWords, SubSeq(SelWords, 1, SelRepeated)>>

\* Strict Linguist, Entropy Raw, Legacy Reborn, Vowel Contingency, Entropy Filtered,
\* Rank Filtered and Double Barrel
GameConfigs == {1, 2, 3, 6, 11, 13, 19}

InitGame ==
    /\ MainIdle /\ fb = FbIdle /\ fl = FlIdle /\ sel = SelIdle
    /\ \E d \in 1..Len(GamePools), c \in GameConfigs, hard \in BOOLEAN :
       \E pool \in {load_dictionary(GamePools[d], Len(GamePools[d]))} :
       \E t \in 1..Len(pool) :
          call = [op |-> "game", pc |-> "start", master |-> pool, config |-> c,
                  isHardMode |-> hard, t |-> t, g |-> NoGame]

\* the opening word of the configuration, then the worker's copy reset for target t
BeginGame ==
    /\ call.op = "game" /\ call.pc = "start"
    /\ call' = [call EXCEPT !.pc = "play",
                   !.g = StartGame(call.t, call.master, Len(call.master), call.master,
                                   DetermineOpener(call.master, Len(call.master),
                                                   ALL_STRATEGIES[call.config]))]
    /\ UNCHANGED <<fb, fl, sel, mainVars>>

\* one iteration of the game loop
PlayGameTurn ==
    /\ call.op = "game" /\ call.pc = "play" /\ ~call.g.over
    /\ call' = [call EXCEPT !.g = PlayTurn(call.g, call.master[call.t].word,
                                           ALL_STRATEGIES[call.config], call.isHardMode,
                                           Len(call.master))]
    /\ UNCHANGED <<fb, fl, sel, mainVars>>

NextGame == BeginGame \/ PlayGameTurn

SpecGame == InitGame /\ [][NextGame]_vars

\* the game of the harness is in its loop, k guesses compared so far
GameAtTurn(k) == call.op = "game" /\ call.pc = "play" /\ ~call.g.over /\ call.g.turn = k

\* the configuration's next guesses come from the normal-mode scan
GameUsesNormalScan ==
    /\ ~call.isHardMode
    /\ ALL_STRATEGIES[call.config].base_strategy_index <= 1

\* the word about to be compared is the word of an eliminated entry of the copy
GuessIsEliminated(g) ==
    \E i \in 1..Len(g.p_thread_data) :
        g.p_thread_data[i].word = g.current_guess /\ g.p_thread_data[i].is_eliminated

\* C21 as stated: in a normal-mode simulated game played with the Smart or Entropy Raw
\* strategy, the sixth and last guess compared with the target is never an eliminated
\* word.
C21_LastGuessNotEliminated ==
    (GameAtTurn(MAX_GUESSES) /\ GameUsesNormalScan
        /\ ALL_STRATEGIES[call.config].base_strategy_index \in {-1, 0}) =>
        ~GuessIsEliminated(call.g)

\* C22 as stated: when second_opener_override_word is set in the configuration, the
\* second guess of every simulated game that is not won on the first guess is exactly
\* that word, in hard mode as well as in normal mode.
C22_SecondOpenerPlayed ==
    (call.op = "game" /\ call.pc = "play"
        /\ ALL_STRATEGIES[call.config].second_opener_override_word # NoWord
        /\ Len(call.g.log) >= 2) =>
        call.g.log[2] = ALL_STRATEGIES[call.config].second_opener_override_word

----------------------------------------------------------------------------
(* Claims on the calls of get_smart_hybrid_guess (SpecSelect), continued *)

\* the word holds fewer copies of some letter than the tracked minimum
FallsShort(word, min_required_counts) ==
    \E c \in Letters : Occurrences(word, c) < min_required_counts[c]

\* a candidate the main loop does not exempt from its filters as an endgame solver
SelNotExempt(a, i) == a.pool[i].is_eliminated \/ a.valid_count > 10

\* C23 as stated: with use_risk_filter enabled, a candidate that contains fewer
\* occurrences of some letter than the tracked minimum required count for that letter
\* is rejected by the risk filter in get_smart_hybrid_guess.
C23_RiskFilterRejectsShortfall ==
    (sel.called /\ sel.count > 0 /\ sel.early = NULL
        /\ ALL_STRATEGIES[sel.cfg].use_risk_filter) =>
        \A i \in 1..sel.count :
            (FallsShort(sel.pool[i].word, sel.min_required_counts) /\ SelNotExempt(sel, i)) =>
                /\ is_risky_guess(sel.pool[i], sel.min_required_counts)
                /\ i \in sel.skipped

----------------------------------------------------------------------------
(* Harness of get_best_guess_candidates: the views its callers build from a   *)
(* prefix of SelWords, a mode and at most one filtered guess                  *)

InitCandidates ==
    /\ MainIdle /\ fb = FbIdle /\ fl = FlIdle /\ sel = SelIdle
    /\ \E n \in SelSizes :
          \/ n = 0 /\ call = [op |-> "candidates", called |-> FALSE, a |-> SelIdle,
                              ok |-> FALSE, candidates |-> <<>>]
          \/ /\ n > 0
             /\ \E pool \in {load_dictionary(SelWords, n)} :
                \E prev \in 0..SelGuesses, t \in 1..n, isHardMode \in BOOLEAN, recompute \in BOOLEAN :
                   /\ prev # t
                   /\ call = [op |-> "candidates", called |-> FALSE,
                              a |-> SelScenario(pool, n, prev, t, isHardMode, recompute),
                              ok |-> FALSE, candidates |-> <<>>]

CallGetBestGuessCandidates ==
    /\ call.op = "candidates" /\ ~call.called
    /\ call' = IF call.a.count = 0 THEN [call EXCEPT !.called = TRUE]
               ELSE [call EXCEPT !.called = TRUE, !.ok = TRUE,
                        !.candidates = get_best_guess_candidates(call.a.pool, call.a.p_entropy_sorted,
                                           call.a.p_rank_sorted, call.a.count)]
    /\ UNCHANGED <<fb, fl, sel, mainVars>>

NextCandidates == CallGetBestGuessCandidates

SpecCandidates == InitCandidates /\ [][NextCandidates]_vars

\* the positions of a view, among the first count, whose entry is non-eliminated and
\* meets the filtered criteria
Qualifying(a, view) ==
    {i \in 1..a.count : /\ ~a.pool[view[i]].is_eliminated
                        /\ meets_filtered_criteria(a.pool[view[i]])}

\* the first qualifying entry of a view in view order, the view's first entry when
\* there is none
FirstQualifying(a, view) ==
    IF Qualifying(a, view) = {} THEN view[1] ELSE view[FirstIndex(Qualifying(a, view))]

\* C24 as stated: for any view passed in, the normal-mode entropy view with eliminated
\* and non-eliminated entries interleaved included, get_best_guess_candidates returns
\* as the Filtered recommendation the first entry in view order that is non-eliminated
\* and meets the filtered criteria whenever such an entry exists among the first count
\* entries, and the view's first entry only when none exists.
C24_FilteredIsFirstQualifying ==
    (call.op = "candidates" /\ call.called /\ call.ok) =>
        /\ call.candidates[2] = FirstQualifying(call.a, call.a.p_entropy_sorted)
        /\ call.candidates[4] = FirstQualifying(call.a, call.a.p_rank_sorted)

----------------------------------------------------------------------------
(* Claims on one simulated game (SpecGame), continued *)

\* the non-eliminated entries of the worker's copy
ValidEntries(g) == {i \in 1..Len(g.p_thread_data) : ~g.p_thread_data[i].is_eliminated}

\* the guess about to be compared was picked by get_smart_hybrid_guess in the
\* normal-mode branch: a Smart configuration, a guess already filtered on, and not the
\* forced second opener
PickedBySmartScan ==
    /\ call.op = "game" /\ call.pc = "play" /\ ~call.g.over
    /\ ~call.isHardMode /\ ALL_STRATEGIES[call.config].base_strategy_index = -1
    /\ Len(call.g.log) >= 1
    /\ ~(Len(call.g.log) = 1
         /\ ALL_STRATEGIES[call.config].second_opener_override_word # NoWord)

\* C25 as stated: in normal mode, whenever exactly one non-eliminated entry remains
\* after filtering, the next guess chosen by get_smart_hybrid_guess on the recomputed
\* views is that entry rather than an eliminated word, for every configuration and turn.
C25_LastAnswerIsGuessed ==
    (PickedBySmartScan /\ Cardinality(ValidEntries(call.g)) = 1) =>
        \A i \in ValidEntries(call.g) : call.g.current_guess = call.g.p_thread_data[i].word

\* the word of entry i of the copy is the game's target
IsTarget(i) == call.g.p_thread_data[i].word = call.master[call.t].word

\* the guesses after the opener come from the branch that sorts and shrinks the copy
GameUsesHardScan == ~GameUsesNormalScan

\* C26: in every simulated game, in both modes, the entry of the target word in the
\* worker's copy is never marked eliminated (and, where the copy is compacted, stays
\* among its first current_count entries); the number of non-eliminated entries is at
\* least 1 at every turn and the game loop never leaves through its "no valid words"
\* break: a game that ends without a win has compared MAX_GUESSES guesses.
C26_TargetNeverEliminated ==
    (call.op = "game" /\ call.pc = "play") =>
        /\ \A i \in 1..Len(call.master) : IsTarget(i) => ~call.g.p_thread_data[i].is_eliminated
        /\ \E i \in 1..call.g.current_count : IsTarget(i)
        /\ ValidEntries(call.g) # {}
        /\ (call.g.over /\ ~call.g.won) =>
              (call.g.turn = MAX_GUESSES + 1 /\ Len(call.g.log) = MAX_GUESSES)

\* a game of the compacting branch lost after six comparisons, the target the only
\* entry still valid or one of several
C26_Witness ==
    /\ call.op = "game" /\ call.pc = "play" /\ GameUsesHardScan
    /\ call.g.over /\ ~call.g.won /\ Len(call.g.log) = MAX_GUESSES
    /\ \E i \in 1..Len(call.master) : call.g.p_thread_data[i].is_eliminated

\* C27: in a simulated game, after any sequence of guesses, min_required_counts[L] is
\* at most the number of occurrences of L in the target word, for every letter L.
C27_MinCountsWithinTarget ==
    (call.op = "game" /\ call.pc = "play") =>
        \A c \in Letters :
            call.g.min_required_counts[c] <= Occurrences(call.master[call.t].word, c)

\* a compared guess that holds two copies of a letter the target holds once: the
\* tracked minimum of that letter is 1
C27_Witness ==
    /\ call.op = "game" /\ call.pc = "play" /\ Len(call.g.log) >= 1 /\ ~call.g.won
    /\ \E c \in Letters :
          /\ Occurrences(call.g.log[Len(call.g.log)], c) = 2
          /\ Occurrences(call.master[call.t].word, c) = 1
          /\ call.g.min_required_counts[c] = 1

\* the word about to be compared is the word of a non-eliminated entry of the copy
GuessIsValidEntry(g) ==
    \E i \in ValidEntries(g) : g.p_thread_data[i].word = g.current_guess

\* a step of the game that compares a guess and does not win
GameTurnLost ==
    /\ call.op = "game" /\ call.pc = "play" /\ ~call.g.over
    /\ call'.op = "game" /\ Len(call'.g.log) = Len(call.g.log) + 1 /\ ~call'.g.won

\* C28: whenever a non-winning guess is itself a non-eliminated entry of the pool,
\* filtering on its feedback eliminates it, so the number of non-eliminated entries
\* strictly decreases; in a hard-mode simulated game this holds for every guess after
\* the opener and no word is guessed twice in one game.
C28_GuessedEntryEliminated ==
    [][GameTurnLost =>
          /\ GuessIsValidEntry(call.g) =>
                /\ \A i \in 1..Len(call.master) :
                      call'.g.p_thread_data[i].word = call.g.current_guess =>
                          call'.g.p_thread_data[i].is_eliminated
                /\ Cardinality(ValidEntries(call'.g)) < Cardinality(ValidEntries(call.g))
          /\ (call.isHardMode /\ Len(call.g.log) >= 1) => GuessIsValidEntry(call.g)
          /\ call.isHardMode =>
                \A j, k \in 1..Len(call'.g.log) : j # k => call'.g.log[j] # call'.g.log[k]]_vars

\* a hard-mode game with three guesses compared and lost, the third one an entry of
\* the copy that is now eliminated
C28_Witness ==
    /\ call.op = "game" /\ call.pc = "play" /\ call.isHardMode
    /\ Len(call.g.log) >= 3 /\ ~call.g.won
    /\ \E i \in 1..Len(call.master) :
          /\ call.g.p_thread_data[i].word = call.g.log[3]
          /\ call.g.p_thread_data[i].is_eliminated

====
